---------------------------- MODULE Spec2Model ----------------------------
(***************************************************************************)
(* Model of the dropout-prevention agent:                                  *)
(*   - agent/risk_calculator.py : calculate_risk (rule-based scorer)       *)
(*   - gemini/gemini_client.py  : GeminiClient.generate_json               *)
(*   - agent/decision_agent.py  : DecisionAgent.recommend/_validate/       *)
(*                                _fallback                                *)
(*   - agent/agent_loop.py      : run_agent                                *)
(*   - agent/memory_store.py    : MemoryStore                              *)
(*                                                                         *)
(* The specifications of the module:                                       *)
(*   SpecRisk       - calculate_risk applied to RiskInputs from bounded    *)
(*                    sets                                                 *)
(*   SpecRiskAbsent - calculate_risk on inputs with absent signals         *)
(*   SpecDecide     - DecisionAgent.recommend against every behaviour of   *)
(*                    the advisory service                                 *)
(*   SpecRun        - run_agent on a batch of rows, writing the store      *)
(*   SpecRiskAgain  - calculate_risk called again on an earlier input      *)
(*   SpecStore      - direct MemoryStore calls interleaved with runs and   *)
(*                    with the three reads of get_student_timeline         *)
(*   SpecProfiles   - upsert_student calls on the students table           *)
(*                                                                         *)
(* Representation.                                                         *)
(*   Optional values (Python None) are sets of at most one element:        *)
(*   {} is None, {v} is the value v.                                       *)
(*   GPAs are counted in quarters of a grade point (10 is 2.5), for which  *)
(*   the float subtraction and round(.., 3) of the code are exact; the     *)
(*   threshold 0.5 is then 2 quarters.                                     *)
(*   A float that is NaN is the integer FloatNaN, which no signal takes;   *)
(*   the comparisons and the subtraction of the scorer go through Lt, Gt   *)
(*   and Sub, which treat it as Python treats NaN.                         *)
(*   A datetime is a record [sec, microsecond]: sec is its ISO text to the *)
(*   second; isoformat and _iso build the strings the code writes.         *)
(*   A query whose ORDER BY leaves rows tied is the set of the lists it    *)
(*   can return.                                                           *)
(*   A Python str is a sequence of segments, each either a whitespace      *)
(*   character or a word; str.strip() removes whitespace at both ends.     *)
(*   A JSON value is a record [t, s]: t is its Python type after           *)
(*   json.loads ("str", "null", "number", "bool", "list", "object") or     *)
(*   "absent" for a key that is not in its dict; s is the text of a str.   *)
(***************************************************************************)
EXTENDS Integers, Sequences, FiniteSets, TLC

VARIABLES
    \* ---- calculate_risk
    inp,        \* the RiskInput of the latest calculate_risk call
    res,        \* what that call did: a RiskResult or an exception
    inp0,       \* the RiskInput of the call before it
    res0,       \* and its outcome
    op,         \* the latest operation of the scorer harness
    \* ---- DecisionAgent.recommend
    api_key,    \* GeminiClient.api_key
    context,    \* the context passed to recommend
    svc,        \* how the advisory service behaves for the call
    candidate,  \* the JSON value the service's text parses to
    outcome,    \* what recommend did: a Recommendation or an exception
    calls,      \* HTTP requests sent during the latest recommend call
    \* ---- run_agent and the MemoryStore
    pc,         \* the statement run_agent is at
    use_db,     \* run_agent's use_db_signals argument
    rows,       \* the rows of df, in order
    idx,        \* the row the loop is at (1-based)
    as_of,      \* the run's observation timestamp
    students,   \* table students: one profile row per student_id
    snapshots,  \* table risk_snapshots, in insertion order
    recs,       \* table recommendations, in insertion order
    all_out,    \* run_agent's list all_out
    out_file,   \* the content of outputs_path, None while not written
    run,        \* what run_agent did: an AgentRunResult or an exception
    interventions, \* table interventions, in insertion order
    signals,    \* table student_signals, in insertion order
    ret,        \* the direct call of a MemoryStore method that returned last
                \* and its result
    reader      \* a get_student_timeline call in progress: the statement it
                \* is at and the lists it has read

riskVars   == <<inp, res, inp0, res0, op>>
decideVars == <<api_key, context, svc, candidate, outcome, calls>>
storeVars  == <<interventions, signals, ret, reader>>
runVars    == <<pc, use_db, rows, idx, as_of, students, snapshots, recs,
                all_out, out_file, run, interventions, signals, ret, reader>>
vars       == <<inp, res, inp0, res0, op,
                api_key, context, svc, candidate, outcome, calls,
                pc, use_db, rows, idx, as_of, students, snapshots, recs,
                all_out, out_file, run, interventions, signals, ret, reader>>

(***************************************************************************)
(* Bounds of the model                                                     *)
(***************************************************************************)
MaxCount == 3       \* failed / missed counts range over -1 .. MaxCount
MaxActions == 2     \* longest recommended_actions list the service returns

(***************************************************************************)
(* Python helpers                                                          *)
(***************************************************************************)
None == {}
Some(v) == {v}
Opt(S) == {None} \cup {Some(v) : v \in S}
Val(o) == CHOOSE v \in o : TRUE

\* float("nan").  The floats of the model are integers, and NaN is an
\* integer that no signal takes: a comparison with NaN is false and
\* arithmetic on NaN gives NaN.
FloatNaN == -1000
IsNaN(x) == x = FloatNaN
Lt(a, b) == ~ IsNaN(a) /\ ~ IsNaN(b) /\ a < b
Gt(a, b) == ~ IsNaN(a) /\ ~ IsNaN(b) /\ a > b
Sub(a, b) == IF IsNaN(a) \/ IsNaN(b) THEN FloatNaN ELSE a - b

Min(a, b) == IF a <= b THEN a ELSE b
Max(a, b) == IF a >= b THEN a ELSE b

\* A datetime: its date and time to the second, in ISO form, and its
\* microsecond.
DateTime(sec, micro) == [sec |-> sec, microsecond |-> micro]

\* The six digits isoformat writes for a microsecond.
Micro6(n) ==
    IF n < 10 THEN "00000" \o ToString(n)
    ELSE IF n < 100 THEN "0000" \o ToString(n)
    ELSE IF n < 1000 THEN "000" \o ToString(n)
    ELSE IF n < 10000 THEN "00" \o ToString(n)
    ELSE IF n < 100000 THEN "0" \o ToString(n)
    ELSE ToString(n)

\* datetime.isoformat(): the microsecond is written unless it is 0.
isoformat(dt) ==
    IF dt.microsecond = 0 THEN dt.sec ELSE dt.sec \o "." \o Micro6(dt.microsecond)

\* memory_store._iso: dt.replace(microsecond=0).isoformat()
_iso(dt) == isoformat([dt EXCEPT !.microsecond = 0])

\* The microseconds of the datetimes of the model: a whole second, and not.
Micros == {0, 123456}

\* No datetime yet.
NoAsOf == DateTime("", 0)

RECURSIVE SumPoints(_)
SumPoints(rs) == IF rs = <<>> THEN 0 ELSE Head(rs).points + SumPoints(Tail(rs))

(***************************************************************************)
(* agent/risk_calculator.py                                                *)
(***************************************************************************)
\* int(x or 0): None and 0 give 0, any other int is itself.
IntOrZero(o) == IF o = None THEN 0 ELSE Val(o)

clamp_scoreNoUpper(score) == Max(0, score)

clamp_score(score) == Max(0, Min(100, score))

risk_levelStrict(score) ==
    IF score < 30 THEN "LOW"
    ELSE IF score < 60 THEN "MEDIUM"
    ELSE "HIGH"

risk_level(score) ==
    IF score <= 30 THEN "LOW"
    ELSE IF score <= 60 THEN "MEDIUM"
    ELSE "HIGH"

\* Each rule takes the running (score, reasons) and returns it updated.
AttendanceRule(i, acc) ==
    IF Lt(Val(i.attendance_pct), 60)
    THEN [score |-> acc.score + 30,
          reasons |-> Append(acc.reasons,
              [rule |-> "attendance_lt_60", points |-> 30,
               evidence |-> [attendance_pct |-> Val(i.attendance_pct)]])]
    ELSE acc

GpaTrendRuleNoneAsTop(i, acc) ==
    LET previous == IF i.previous_gpa = None THEN 16 ELSE Val(i.previous_gpa)
        gpa_drop == Sub(previous, Val(i.current_gpa))
    IN  IF Gt(gpa_drop, 2)
        THEN [score |-> acc.score + 25,
              reasons |-> Append(acc.reasons,
                  [rule |-> "gpa_drop_gt_0_5", points |-> 25,
                   evidence |-> [previous_gpa |-> previous,
                                 current_gpa |-> Val(i.current_gpa),
                                 gpa_drop |-> gpa_drop]])]
        ELSE acc

GpaTrendRule(i, acc) ==
    IF i.previous_gpa # None
    THEN LET gpa_drop == Sub(Val(i.previous_gpa), Val(i.current_gpa))
         IN  IF Gt(gpa_drop, 2)
             THEN [score |-> acc.score + 25,
                   reasons |-> Append(acc.reasons,
                       [rule |-> "gpa_drop_gt_0_5", points |-> 25,
                        evidence |-> [previous_gpa |-> Val(i.previous_gpa),
                                      current_gpa |-> Val(i.current_gpa),
                                      gpa_drop |-> gpa_drop]])]
             ELSE acc
    ELSE acc

InactivityRuleDated(i, acc) ==
    IF Val(i.lms_last_active_days) > 14
    THEN [score |-> acc.score + 20,
          reasons |-> Append(acc.reasons,
              [rule |-> "lms_inactive_gt_14_days", points |-> 20,
               evidence |-> [lms_last_active_days |-> Val(i.lms_last_active_days),
                             as_of |-> i.as_of]])]
    ELSE acc

InactivityRule(i, acc) ==
    IF Val(i.lms_last_active_days) > 14
    THEN [score |-> acc.score + 20,
          reasons |-> Append(acc.reasons,
              [rule |-> "lms_inactive_gt_14_days", points |-> 20,
               evidence |-> [lms_last_active_days |-> Val(i.lms_last_active_days)]])]
    ELSE acc

FailedModulesRuleNoElif(i, acc) ==
    LET failed == IntOrZero(i.failed_modules_count)
        a1 == IF failed >= 2
              THEN [score |-> acc.score + 25,
                    reasons |-> Append(acc.reasons,
                        [rule |-> "failed_modules_ge_2", points |-> 25,
                         evidence |-> [failed_modules_count |-> failed]])]
              ELSE acc
    IN  IF failed >= 1
        THEN [score |-> a1.score + 15,
              reasons |-> Append(a1.reasons,
                  [rule |-> "failed_modules_ge_1", points |-> 15,
                   evidence |-> [failed_modules_count |-> failed]])]
        ELSE a1

FailedModulesRule(i, acc) ==
    LET failed == IntOrZero(i.failed_modules_count)
    IN  IF failed >= 2
        THEN [score |-> acc.score + 25,
              reasons |-> Append(acc.reasons,
                  [rule |-> "failed_modules_ge_2", points |-> 25,
                   evidence |-> [failed_modules_count |-> failed]])]
        ELSE IF failed >= 1
        THEN [score |-> acc.score + 15,
              reasons |-> Append(acc.reasons,
                  [rule |-> "failed_modules_ge_1", points |-> 15,
                   evidence |-> [failed_modules_count |-> failed]])]
        ELSE acc

MissedAssessmentsRuleSwapped(i, acc) ==
    LET missed == IntOrZero(i.missed_assessments_count)
    IN  IF missed >= 3
        THEN [score |-> acc.score + 10,
              reasons |-> Append(acc.reasons,
                  [rule |-> "missed_assessments_ge_3", points |-> 10,
                   evidence |-> [missed_assessments_count |-> missed]])]
        ELSE IF missed >= 1
        THEN [score |-> acc.score + 20,
              reasons |-> Append(acc.reasons,
                  [rule |-> "missed_assessments_ge_1", points |-> 20,
                   evidence |-> [missed_assessments_count |-> missed]])]
        ELSE acc

MissedAssessmentsRule(i, acc) ==
    LET missed == IntOrZero(i.missed_assessments_count)
    IN  IF missed >= 3
        THEN [score |-> acc.score + 20,
              reasons |-> Append(acc.reasons,
                  [rule |-> "missed_assessments_ge_3", points |-> 20,
                   evidence |-> [missed_assessments_count |-> missed]])]
        ELSE IF missed >= 1
        THEN [score |-> acc.score + 10,
              reasons |-> Append(acc.reasons,
                  [rule |-> "missed_assessments_ge_1", points |-> 10,
                   evidence |-> [missed_assessments_count |-> missed]])]
        ELSE acc

CourseLoadRule(i, acc) ==
    LET credits == IntOrZero(i.course_load_credits)
    IN  IF credits >= 21
        THEN [score |-> acc.score + 10,
              reasons |-> Append(acc.reasons,
                  [rule |-> "course_load_credits_ge_21", points |-> 10,
                   evidence |-> [course_load_credits |-> credits]])]
        ELSE acc

\* The outcome of a calculate_risk call.
RiskReturned(sid, score, level, reasons) ==
    [kind |-> "returned", exc |-> "", student_id |-> sid,
     score |-> score, level |-> level, reasons |-> reasons]
RiskRaised(exc) ==
    [kind |-> "raised", exc |-> exc, student_id |-> "",
     score |-> 0, level |-> "", reasons |-> <<>>]
NoRisk ==
    [kind |-> "none", exc |-> "", student_id |-> "",
     score |-> 0, level |-> "", reasons |-> <<>>]

\* The comparisons of the code raise TypeError on None, in the order the code
\* makes them: attendance (line 62), the GPA subtraction (line 75), inactivity
\* (line 92).  The three counts go through int(x or 0) and never raise.
calculate_risk(i) ==
    IF i.attendance_pct = None THEN RiskRaised("TypeError")
    ELSE IF i.previous_gpa # None /\ i.current_gpa = None THEN RiskRaised("TypeError")
    ELSE IF i.lms_last_active_days = None THEN RiskRaised("TypeError")
    ELSE
    LET a0 == [score |-> 0, reasons |-> <<>>]
        a1 == AttendanceRule(i, a0)
        a2 == GpaTrendRule(i, a1)
        a3 == InactivityRule(i, a2)
        a4 == FailedModulesRule(i, a3)
        a5 == MissedAssessmentsRule(i, a4)
        a6 == CourseLoadRule(i, a5)
        score == clamp_score(a6.score)
    IN  RiskReturned(i.student_id, score, risk_level(score), a6.reasons)

(***************************************************************************)
(* The scorer's inputs: values on both sides of every threshold, and       *)
(* out-of-range values (negative counts, attendance below 0 and above 100, *)
(* GPA below 0 and above 4, and NaN for the floats).                       *)
(***************************************************************************)
AttValues    == {-5, 59, 60, 105, FloatNaN}
GpaValues    == {-1, 8, 10, 11, 17, FloatNaN}
DaysValues   == {-1, 14, 15}
CountValues  == -1 .. MaxCount
CreditValues == {-1, 20, 21}

\* RiskInput as its type annotations describe it: only previous_gpa may be
\* None; as_of has its default, None.
RiskInputs ==
    [student_id : {"S1"},
     as_of : {None},
     current_gpa : {Some(g) : g \in GpaValues},
     previous_gpa : Opt(GpaValues),
     attendance_pct : {Some(a) : a \in AttValues},
     lms_last_active_days : {Some(d) : d \in DaysValues},
     failed_modules_count : {Some(c) : c \in CountValues},
     missed_assessments_count : {Some(c) : c \in CountValues},
     course_load_credits : {Some(c) : c \in CreditValues}]

\* RiskInputs in which any of the six numeric signals may also be None.
AbsentInputs ==
    [student_id : {"S1"},
     as_of : {None},
     current_gpa : {Some(g) : g \in GpaValues},
     previous_gpa : Opt(GpaValues),
     attendance_pct : Opt(AttValues),
     lms_last_active_days : Opt(DaysValues),
     failed_modules_count : Opt(CountValues),
     missed_assessments_count : Opt(CountValues),
     course_load_credits : Opt(CreditValues)]

IdleInput ==
    [student_id |-> "S1", as_of |-> None,
     current_gpa |-> Some(12), previous_gpa |-> None,
     attendance_pct |-> Some(90), lms_last_active_days |-> Some(2),
     failed_modules_count |-> Some(0), missed_assessments_count |-> Some(0),
     course_load_credits |-> Some(12)]

(***************************************************************************)
(* Python str and JSON values                                              *)
(***************************************************************************)
\* The characters str.strip() removes: those for which str.isspace() holds.
\* A character the string syntax has no escape for is named by its code
\* point.
Whitespace ==
    {" ", "\t", "\n", "\r", "\f", "U+000B", "U+001C", "U+001D", "U+001E", "U+001F",
     "U+0085", "U+00A0", "U+1680", "U+2000", "U+2001", "U+2002", "U+2003",
     "U+2004", "U+2005", "U+2006", "U+2007", "U+2008", "U+2009", "U+200A",
     "U+2028", "U+2029", "U+202F", "U+205F", "U+3000"}

RECURSIVE LStrip(_)
LStrip(s) == IF s # <<>> /\ Head(s) \in Whitespace THEN LStrip(Tail(s)) ELSE s

RECURSIVE RStrip(_)
RStrip(s) ==
    IF s # <<>> /\ s[Len(s)] \in Whitespace
    THEN RStrip(SubSeq(s, 1, Len(s) - 1))
    ELSE s

\* str.strip()
Strip(s) == RStrip(LStrip(s))

JStr(s)   == [t |-> "str", s |-> s]
JOther(t) == [t |-> t, s |-> <<>>]
JNull     == JOther("null")
JAbsent   == JOther("absent")

\* An element of recommended_actions: a dict with its three keys (each
\* present with a value, or absent), or a value of another type.
Action(ty, ow, ra) == [t |-> "object", type |-> ty, owner |-> ow, rationale |-> ra]
NonObjectAction(t) == [t |-> t, type |-> JAbsent, owner |-> JAbsent, rationale |-> JAbsent]

ActionsList(items) == [t |-> "list", items |-> items]
ActionsOther(t)    == [t |-> t, items |-> <<>>]

\* A parsed JSON value as _validate sees it: a dict with the three keys of
\* the schema and possibly a "source" key, or a value of another type.
JTagged(p, acts, e, src) ==
    [t |-> "object", priority |-> p, recommended_actions |-> acts, explanation |-> e,
     source |-> src]
\* The dict literal {"priority": .., "recommended_actions": .., "explanation": ..}
JObject(p, acts, e) == JTagged(p, acts, e, JAbsent)
JNonObject(t) ==
    [t |-> t, priority |-> JAbsent, recommended_actions |-> ActionsOther("absent"),
     explanation |-> JAbsent, source |-> JAbsent]

NoCandidate == JNonObject("null")

\* What a call did: returned a value, or raised an exception.
Returned(rec)    == [kind |-> "returned", exc |-> "", msg |-> "", rec |-> rec]
Raised(exc, msg) == [kind |-> "raised", exc |-> exc, msg |-> msg, rec |-> NoCandidate]
NoOutcome        == [kind |-> "none", exc |-> "", msg |-> "", rec |-> NoCandidate]

(***************************************************************************)
(* gemini/gemini_client.py                                                 *)
(***************************************************************************)
\* bool(self.api_key): None and "" are not configured.
is_configured(key) == key # None /\ Val(key) # <<>>

\* How one call of the advisory service can go, in the order generate_json
\* meets the cases.
SvcStates ==
    {"transport_error",     \* requests.post raises (connection, timeout)
     "http_error",          \* status code other than 200
     "body_not_json",       \* resp.json() raises
     "bad_envelope",        \* no candidates[0].content.parts[0].text
     "text_not_str",        \* that text is null or a number
     "invalid_json_text",   \* json.loads(text) raises JSONDecodeError
     "json_loads_error",    \* json.loads(text) raises another exception
                            \* (RecursionError on deeply nested text)
     "json_int_too_long",   \* json.loads(text) raises ValueError (a number
                            \* of more than 4300 digits)
     "json_value"}          \* json.loads(text) returns a value

generate_json(key, sv, cand) ==
    IF ~ is_configured(key)
    THEN Raised("GeminiError", "GEMINI_API_KEY not configured")
    ELSE IF sv = "transport_error"
    THEN Raised("RequestException", "")
    ELSE IF sv = "http_error"
    THEN Raised("GeminiError", "Gemini API error")
    ELSE IF sv = "body_not_json"
    THEN Raised("JSONDecodeError", "")
    ELSE IF sv = "bad_envelope"
    THEN Raised("GeminiError", "Unexpected Gemini response shape")
    ELSE IF sv = "text_not_str"
    THEN Raised("TypeError", "")
    ELSE IF sv = "invalid_json_text"
    THEN Raised("GeminiError", "Gemini did not return valid JSON")
    ELSE IF sv = "json_loads_error"
    THEN Raised("RecursionError", "")
    ELSE IF sv = "json_int_too_long"
    THEN Raised("ValueError",
                "Exceeds the limit (4300 digits) for integer string conversion")
    ELSE Returned(cand)

\* The HTTP requests one generate_json call sends: none when the key check
\* raises, else the one requests.post.
generate_json_posts(key, sv) == IF ~ is_configured(key) THEN 0 ELSE 1

(***************************************************************************)
(* agent/decision_agent.py                                                 *)
(***************************************************************************)
\* (context.get("risk", {}) or {}).get("level") or "LOW"
FallbackLevel(ctx) ==
    IF ctx.risk # "object" THEN <<"LOW">>
    ELSE IF ctx.level.t = "str" /\ ctx.level.s # <<>> THEN ctx.level.s
    ELSE <<"LOW">>

FallbackExplanation ==
    JStr(<<"Fallback recommendations used because Gemini is not configured or unavailable.">>)

HighActions ==
    << Action(JStr(<<"Schedule advisor check-in within 48 hours">>),
              JStr(<<"advisor">>),
              JStr(<<"High rule-based risk score; human review recommended soon.">>)),
       Action(JStr(<<"Offer study plan and tutoring referral">>),
              JStr(<<"advisor">>),
              JStr(<<"Support academic recovery without punishment.">>)),
       Action(JStr(<<"Review academic plan (failed modules, assessments, load)">>),
              JStr(<<"advisor">>),
              JStr(<<"Target practical academic barriers indicated by the signals.">>)) >>

MediumActions ==
    << Action(JStr(<<"Advisor outreach email + optional meeting">>),
              JStr(<<"advisor">>),
              JStr(<<"Moderate risk; early support can prevent escalation.">>)),
       Action(JStr(<<"Share time-management and study resources">>),
              JStr(<<"student">>),
              JStr(<<"Encourage self-directed improvements.">>)) >>

LowActions ==
    << Action(JStr(<<"Send positive check-in + resources">>),
              JStr(<<"advisor">>),
              JStr(<<"Low risk; keep supportive contact.">>)) >>

_fallbackLevelAsPriority(ctx) ==
    LET level == FallbackLevel(ctx)
    IN  JObject(JStr(level),
                ActionsList(IF level = <<"HIGH">> THEN HighActions
                            ELSE IF level = <<"MEDIUM">> THEN MediumActions
                            ELSE LowActions),
                FallbackExplanation)

_fallbackNoMedium(ctx) ==
    LET level == FallbackLevel(ctx)
    IN  IF level = <<"HIGH">>
        THEN JObject(JStr(<<"HIGH">>), ActionsList(HighActions), FallbackExplanation)
        ELSE JObject(JStr(<<"LOW">>), ActionsList(LowActions), FallbackExplanation)

_fallback(ctx) ==
    LET level == FallbackLevel(ctx)
    IN  IF level = <<"HIGH">>
        THEN JObject(JStr(<<"HIGH">>), ActionsList(HighActions), FallbackExplanation)
        ELSE IF level = <<"MEDIUM">>
        THEN JObject(JStr(<<"MEDIUM">>), ActionsList(MediumActions), FallbackExplanation)
        ELSE JObject(JStr(<<"LOW">>), ActionsList(LowActions), FallbackExplanation)

\* The first action of the list that _validate's loop rejects, 0 if none.
RECURSIVE FirstBadAction(_, _)
FirstBadAction(items, k) ==
    IF k > Len(items) THEN 0
    ELSE IF items[k].t # "object" THEN k
    ELSE IF \/ items[k].type.t = "absent"
            \/ items[k].owner.t = "absent"
            \/ items[k].rationale.t = "absent" THEN k
    ELSE FirstBadAction(items, k + 1)

_validate(out) ==
    IF out.t # "object"
    THEN Raised("AttributeError", "")               \* out.get on a non-dict
    ELSE IF out.priority.t \in {"list", "object"}
    THEN Raised("TypeError", "")                    \* unhashable in a set lookup
    ELSE IF ~ (out.priority.t = "str"
               /\ out.priority.s \in {<<"LOW">>, <<"MEDIUM">>, <<"HIGH">>})
    THEN Raised("GeminiError", "Invalid priority")
    ELSE IF out.recommended_actions.t # "list" \/ out.recommended_actions.items = <<>>
    THEN Raised("GeminiError", "recommended_actions must be a non-empty list")
    ELSE LET bad == FirstBadAction(out.recommended_actions.items, 1)
         IN  IF bad # 0 /\ out.recommended_actions.items[bad].t # "object"
             THEN Raised("GeminiError", "Action must be object")
             ELSE IF bad # 0
             THEN Raised("GeminiError", "Action missing required fields")
             ELSE IF out.explanation.t # "str" \/ Strip(out.explanation.s) = <<>>
             THEN Raised("GeminiError", "explanation required")
             ELSE Returned(JObject(out.priority, out.recommended_actions,
                                   out.explanation))

recommend(key, ctx, sv, cand) ==
    IF ~ is_configured(key)
    THEN Returned(_fallback(ctx))
    ELSE LET g == generate_json(key, sv, cand)
             v == IF g.kind = "returned" THEN _validate(g.rec) ELSE g
         IN  IF v.kind = "raised" /\ v.exc = "GeminiError"
             THEN Returned(_fallback(ctx))
             ELSE v

\* The HTTP requests one recommend call sends: it calls generate_json once,
\* and only with a key.
recommend_posts(key, ctx, sv, cand) ==
    IF ~ is_configured(key) THEN 0 ELSE generate_json_posts(key, sv)

(***************************************************************************)
(* The inputs of recommend                                                 *)
(***************************************************************************)
ApiKeys == {None, Some(<<>>), Some(<<"key">>)}

LevelValues ==
    {JStr(<<"LOW">>), JStr(<<"MEDIUM">>), JStr(<<"HIGH">>), JStr(<<"CRITICAL">>),
     JStr(<<>>), JNull, JAbsent}

Contexts ==
    {[risk |-> "absent", level |-> JAbsent], [risk |-> "null", level |-> JAbsent]}
        \cup {[risk |-> "object", level |-> l] : l \in LevelValues}

IdleContext == [risk |-> "absent", level |-> JAbsent]

PriorityValues ==
    {JStr(<<"LOW">>), JStr(<<"MEDIUM">>), JStr(<<"HIGH">>), JStr(<<"URGENT">>),
     JStr(<<"HIGH", " ">>), JAbsent, JNull, JOther("number"), JOther("list"),
     JOther("object")}

ExplanationValues ==
    {JStr(<<"x">>), JStr(<<" ", "x", " ">>), JStr(<<>>), JStr(<<" ", "\t">>),
     JStr(<<"\n">>), JStr(<<"\r", "U+00A0">>), JAbsent, JNull, JOther("number")}

\* The "source" key of a reply: not there, or naming the service.
SourceValues == {JAbsent, JStr(<<"advisory-service">>)}

ActionSamples ==
    {Action(JStr(<<"call">>), JStr(<<"advisor">>), JStr(<<"why">>)),
     Action(JStr(<<"call">>), JStr(<<"dean">>), JStr(<<"why">>)),
     Action(JAbsent, JStr(<<"advisor">>), JStr(<<"why">>)),
     Action(JStr(<<"call">>), JAbsent, JStr(<<"why">>)),
     Action(JStr(<<"call">>), JStr(<<"advisor">>), JAbsent),
     Action(JStr(<<>>), JStr(<<"advisor">>), JStr(<<"why">>)),
     Action(JStr(<<"call">>), JNull, JStr(<<"why">>)),
     Action(JStr(<<"call">>), JStr(<<"student">>), JStr(<<" ">>)),
     NonObjectAction("str")}

ActionLists == UNION {[1 .. n -> ActionSamples] : n \in 0 .. MaxActions}

ActionsValues ==
    {ActionsOther(t) : t \in {"absent", "null", "str", "object"}}
        \cup {ActionsList(l) : l \in ActionLists}

Candidates ==
    {JNonObject(t) : t \in {"list", "str", "number", "bool", "null"}}
        \cup {JTagged(p, a, e, src) : p \in PriorityValues, a \in ActionsValues,
                                      e \in ExplanationValues, src \in SourceValues}

\* The state of the DecisionAgent while only the scorer runs.
DecideIdle ==
    /\ api_key = None
    /\ context = IdleContext
    /\ svc = "unused"
    /\ candidate = NoCandidate
    /\ outcome = NoOutcome
    /\ calls = 0

\* What run_agent did: returned an AgentRunResult, or raised.
RunReturned(n) == [kind |-> "returned", exc |-> "", processed |-> n]
RunRaised(exc) == [kind |-> "raised", exc |-> exc, processed |-> 0]
NoRun          == [kind |-> "none", exc |-> "", processed |-> 0]

\* A direct call of a MemoryStore method: its name, its arguments, whether it
\* returned or raised, and the value it returned.
StoreCall(name, args, kind, exc, value) ==
    [op |-> name, args |-> args, kind |-> kind, exc |-> exc, value |-> value]
NoRet == StoreCall("none", <<>>, "none", "", <<>>)

\* No get_student_timeline call is in progress.
NoReader == [at |-> "none", student_id |-> "", risks |-> <<>>,
             recommendations |-> <<>>]

\* The state of run_agent and of the store while run_agent is not running.
RunIdle ==
    /\ pc = "idle"
    /\ use_db = FALSE
    /\ rows = <<>>
    /\ idx = 0
    /\ as_of = NoAsOf
    /\ students = {}
    /\ snapshots = <<>>
    /\ recs = <<>>
    /\ all_out = <<>>
    /\ out_file = None
    /\ run = NoRun
    /\ interventions = <<>>
    /\ signals = <<>>
    /\ ret = NoRet
    /\ reader = NoReader

\* The state of the scorer while only the DecisionAgent runs.
RiskIdle ==
    /\ inp = IdleInput
    /\ res = NoRisk
    /\ inp0 = IdleInput
    /\ res0 = NoRisk
    /\ op = "idle"

(***************************************************************************)
(* SpecRisk: calculate_risk on every RiskInput, then on inputs that differ *)
(* from the last one in one signal, made worse.                            *)
(***************************************************************************)
InitRisk ==
    /\ inp \in RiskInputs
    /\ res = NoRisk
    /\ inp0 = inp
    /\ res0 = NoRisk
    /\ op = "init"
    /\ DecideIdle
    /\ RunIdle

Calculate ==
    /\ op = "init"
    /\ res' = calculate_risk(inp)
    /\ res0' = res'
    /\ op' = "calculate"
    /\ UNCHANGED <<inp, inp0>>
    /\ UNCHANGED decideVars
    /\ UNCHANGED runVars

\* calculate_risk on the input i, which differs from inp in one signal.
Recalculate(i, what) ==
    /\ op # "init"
    /\ res.kind = "returned"
    /\ inp' = i
    /\ res' = calculate_risk(i)
    /\ inp0' = inp
    /\ res0' = res
    /\ op' = what
    /\ UNCHANGED decideVars
    /\ UNCHANGED runVars

WorsenAttendance ==
    \E v \in AttValues :
        /\ Lt(v, Val(inp.attendance_pct))
        /\ Recalculate([inp EXCEPT !.attendance_pct = Some(v)], "worsen")

WorsenCurrentGpa ==
    \E v \in GpaValues :
        /\ inp.previous_gpa # None
        /\ Lt(v, Val(inp.current_gpa))
        /\ Recalculate([inp EXCEPT !.current_gpa = Some(v)], "worsen")

WorsenPreviousGpa ==
    \E v \in GpaValues :
        /\ inp.previous_gpa # None
        /\ Gt(v, Val(inp.previous_gpa))
        /\ Recalculate([inp EXCEPT !.previous_gpa = Some(v)], "worsen")

WorsenInactivity ==
    \E v \in DaysValues :
        /\ v > Val(inp.lms_last_active_days)
        /\ Recalculate([inp EXCEPT !.lms_last_active_days = Some(v)], "worsen")

WorsenFailed ==
    \E v \in CountValues :
        /\ v > Val(inp.failed_modules_count)
        /\ Recalculate([inp EXCEPT !.failed_modules_count = Some(v)], "worsen")

WorsenMissed ==
    \E v \in CountValues :
        /\ v > Val(inp.missed_assessments_count)
        /\ Recalculate([inp EXCEPT !.missed_assessments_count = Some(v)], "worsen")

WorsenCredits ==
    \E v \in CreditValues :
        /\ v > Val(inp.course_load_credits)
        /\ Recalculate([inp EXCEPT !.course_load_credits = Some(v)], "worsen")

\* The same input without its previous GPA, which caused no GPA drop.
ForgetPreviousGpa ==
    /\ inp.previous_gpa # None
    /\ ~ Gt(Sub(Val(inp.previous_gpa), Val(inp.current_gpa)), 2)
    /\ Recalculate([inp EXCEPT !.previous_gpa = None], "forget_previous")

NextRisk ==
    \/ Calculate
    \/ ForgetPreviousGpa
    \/ WorsenAttendance
    \/ WorsenCurrentGpa
    \/ WorsenPreviousGpa
    \/ WorsenInactivity
    \/ WorsenFailed
    \/ WorsenMissed
    \/ WorsenCredits

SpecRisk == InitRisk /\ [][NextRisk]_vars

(***************************************************************************)
(* SpecRiskAgain: calculate_risk on an input, on other inputs, and then on *)
(* the signals of the first input again: in the same RiskInput, or in one  *)
(* of another student or of another observation time.                      *)
(***************************************************************************)
\* The fields of a RiskInput that are no signals.
AgainStudents == {"S1", "S2"}
AgainAsOfs == {None, Some(DateTime("2026-01-01T00:00:00", 0)),
               Some(DateTime("2026-01-02T00:00:00", 123456))}

CalculateAgain ==
    /\ op = "worsen"
    /\ \E sid \in AgainStudents, asof \in AgainAsOfs :
           Recalculate([inp0 EXCEPT !.student_id = sid, !.as_of = asof], "again")

\* The calls in between are made before the signals are scored again.
NextRiskAgain ==
    \/ Calculate
    \/ op # "again" /\ WorsenAttendance
    \/ op # "again" /\ WorsenFailed
    \/ CalculateAgain

SpecRiskAgain == InitRisk /\ [][NextRiskAgain]_vars

(***************************************************************************)
(* SpecRiskAbsent: calculate_risk on inputs with absent (None) signals.    *)
(***************************************************************************)
InitRiskAbsent ==
    /\ inp \in AbsentInputs
    /\ res = NoRisk
    /\ inp0 = inp
    /\ res0 = NoRisk
    /\ op = "init"
    /\ DecideIdle
    /\ RunIdle

NextRiskAbsent == Calculate

SpecRiskAbsent == InitRiskAbsent /\ [][NextRiskAbsent]_vars

(***************************************************************************)
(* Claims about calculate_risk (checked under SpecRisk)                    *)
(***************************************************************************)
\* What the rule table gives for an input, each rule evaluated on its own.
AttendancePoints(i) == IF Lt(Val(i.attendance_pct), 60) THEN 30 ELSE 0
GpaDropPoints(i) ==
    IF i.previous_gpa # None /\ Gt(Sub(Val(i.previous_gpa), Val(i.current_gpa)), 2)
    THEN 25 ELSE 0
InactivityPoints(i) == IF Val(i.lms_last_active_days) > 14 THEN 20 ELSE 0
FailedPoints(i) ==
    IF Val(i.failed_modules_count) >= 2 THEN 25
    ELSE IF Val(i.failed_modules_count) >= 1 THEN 15 ELSE 0
MissedPoints(i) ==
    IF Val(i.missed_assessments_count) >= 3 THEN 20
    ELSE IF Val(i.missed_assessments_count) >= 1 THEN 10 ELSE 0
CreditPoints(i) == IF Val(i.course_load_credits) >= 21 THEN 10 ELSE 0

RuleSum(i) ==
    AttendancePoints(i) + GpaDropPoints(i) + InactivityPoints(i)
        + FailedPoints(i) + MissedPoints(i) + CreditPoints(i)

\* The rule identifiers an input triggers, in the fixed evaluation order.
TriggeredRules(i) ==
    (IF AttendancePoints(i) > 0 THEN <<"attendance_lt_60">> ELSE <<>>)
    \o (IF GpaDropPoints(i) > 0 THEN <<"gpa_drop_gt_0_5">> ELSE <<>>)
    \o (IF InactivityPoints(i) > 0 THEN <<"lms_inactive_gt_14_days">> ELSE <<>>)
    \o (IF FailedPoints(i) = 25 THEN <<"failed_modules_ge_2">>
        ELSE IF FailedPoints(i) = 15 THEN <<"failed_modules_ge_1">> ELSE <<>>)
    \o (IF MissedPoints(i) = 20 THEN <<"missed_assessments_ge_3">>
        ELSE IF MissedPoints(i) = 10 THEN <<"missed_assessments_ge_1">> ELSE <<>>)
    \o (IF CreditPoints(i) > 0 THEN <<"course_load_credits_ge_21">> ELSE <<>>)

RuleNames(reasons) == [k \in 1 .. Len(reasons) |-> reasons[k].rule]

OutOfRange(i) ==
    \/ Lt(Val(i.attendance_pct), 0) \/ Gt(Val(i.attendance_pct), 100)
    \/ Lt(Val(i.current_gpa), 0) \/ Gt(Val(i.current_gpa), 16)
    \/ Val(i.failed_modules_count) < 0
    \/ Val(i.missed_assessments_count) < 0
    \/ Val(i.course_load_credits) < 0
    \/ Val(i.lms_last_active_days) < 0

\* C4: for every RiskInput, out-of-range values included, calculate_risk
\* returns a score in 0..100 and the level is decided by the score alone:
\* LOW iff score <= 30, MEDIUM iff 31 <= score <= 60, HIGH iff score > 60.
C4_ScoreRangeAndLevel ==
    op # "init" =>
        /\ res.kind = "returned"
        /\ res.score \in 0 .. 100
        /\ res.level \in {"LOW", "MEDIUM", "HIGH"}
        /\ (res.level = "LOW") <=> (res.score <= 30)
        /\ (res.level = "MEDIUM") <=> (31 <= res.score /\ res.score <= 60)
        /\ (res.level = "HIGH") <=> (res.score > 60)

\* An out-of-range input whose score is exactly 60, the top of MEDIUM.
C4_Witness ==
    /\ op = "calculate"
    /\ OutOfRange(inp)
    /\ res.score = 60
    /\ res.level = "MEDIUM"

\* C5: the score is min(100, S), S the sum of the rule contributions, and S
\* is also the sum of the points of the returned reasons.
C5_ScoreIsClampedRuleSum ==
    op # "init" =>
        /\ res.score = Min(100, RuleSum(inp))
        /\ SumPoints(res.reasons) = RuleSum(inp)

\* The example of the specification: every rule but course load fires, the
\* sum is 110, the score 100, the level HIGH, with five reasons.
C5_Witness ==
    /\ op = "calculate"
    /\ RuleSum(inp) = 110
    /\ CreditPoints(inp) = 0
    /\ res.score = 100
    /\ res.level = "HIGH"
    /\ Len(res.reasons) = 5

\* C6: the reasons are exactly the triggered rules, one entry each, in the
\* order attendance, GPA drop, inactivity, failed modules, missed
\* assessments, course load; never both variants of one rule family.
C6_ReasonsAreTriggeredRulesInOrder ==
    op # "init" =>
        /\ RuleNames(res.reasons) = TriggeredRules(inp)
        /\ \A j, k \in 1 .. Len(res.reasons) :
               j # k => res.reasons[j].rule # res.reasons[k].rule
        /\ ~ \E j, k \in 1 .. Len(res.reasons) :
               /\ res.reasons[j].rule = "failed_modules_ge_1"
               /\ res.reasons[k].rule = "failed_modules_ge_2"
        /\ ~ \E j, k \in 1 .. Len(res.reasons) :
               /\ res.reasons[j].rule = "missed_assessments_ge_1"
               /\ res.reasons[k].rule = "missed_assessments_ge_3"

\* All six rules fire at once, the higher variant of both families.
C6_Witness ==
    /\ op = "calculate"
    /\ Len(res.reasons) = 6
    /\ res.reasons[4].rule = "failed_modules_ge_2"
    /\ res.reasons[5].rule = "missed_assessments_ge_3"

\* C7: when an input differs from the one before it in exactly one signal,
\* and is worse in it, its score is not lower.
C7_Monotone ==
    op = "worsen" => res.score >= res0.score

\* One signal was made worse, from a count of 1 to a count of 3 missed
\* assessments, and the score rose.
C7_Witness ==
    /\ op = "worsen"
    /\ Val(inp0.missed_assessments_count) = 1
    /\ Val(inp.missed_assessments_count) = 3
    /\ [inp EXCEPT !.missed_assessments_count = Some(1)] = inp0
    /\ res.score > res0.score

NoGpaReason(reasons) ==
    \A k \in 1 .. Len(reasons) : reasons[k].rule # "gpa_drop_gt_0_5"

\* C16: without a previous GPA calculate_risk does not raise and emits no
\* gpa_drop_gt_0_5 reason, and the score and the reasons are those of the
\* same input with a previous GPA that causes no drop.
C16_MissingPreviousGpaDisablesOnlyGpaRule ==
    /\ (op # "init" /\ inp.previous_gpa = None) =>
           res.kind = "returned" /\ NoGpaReason(res.reasons)
    /\ op = "forget_previous" =>
           /\ res.score = res0.score
           /\ res.level = res0.level
           /\ res.reasons = res0.reasons

\* The previous GPA was taken away from an input on which three other rules
\* fire.
C16_Witness ==
    /\ op = "forget_previous"
    /\ inp.previous_gpa = None
    /\ inp0.previous_gpa # None
    /\ [inp0 EXCEPT !.previous_gpa = None] = inp
    /\ Len(res.reasons) = 3
    /\ res.score = 75

(***************************************************************************)
(* Claims about repeated calls (checked under SpecRiskAgain)               *)
(***************************************************************************)
\* The seven signals of a RiskInput.
SignalsOfInput(i) ==
    <<i.current_gpa, i.previous_gpa, i.attendance_pct, i.lms_last_active_days,
      i.failed_modules_count, i.missed_assessments_count, i.course_load_credits>>

\* C26: a call of calculate_risk on the signals of an earlier call, after a
\* call on other signals, returns the score, level and reasons of the
\* earlier call, whether the RiskInput is the same or has another student_id
\* or another as_of: the result depends on nothing but the signals.
C26_EqualInputsGiveEqualResults ==
    [][op' = "again" =>
          /\ SignalsOfInput(inp') = SignalsOfInput(inp0)
          /\ res0.kind = "returned"
          /\ res'.kind = "returned"
          /\ res'.score = res0.score
          /\ res'.level = res0.level
          /\ res'.reasons = res0.reasons
          /\ res'.student_id = inp'.student_id]_vars

\* The signals of an inactive student were scored again for another student
\* at another time, after a call on worse signals with a higher score.
C26_Witness ==
    /\ op = "again"
    /\ inp.student_id = "S2"
    /\ inp.as_of # None
    /\ inp0.student_id = "S1"
    /\ inp0.as_of = None
    /\ SignalsOfInput(inp) # SignalsOfInput(inp0)
    /\ Val(inp.lms_last_active_days) > 14
    /\ res.kind = "returned"
    /\ res.score = 20
    /\ res0.score = 50

(***************************************************************************)
(* Claims about absent signals (checked under SpecRiskAbsent)              *)
(***************************************************************************)
\* The rule table, a rule whose input is absent counting as not triggered.
PresentRuleSum(i) ==
    (IF i.attendance_pct # None /\ Lt(Val(i.attendance_pct), 60) THEN 30 ELSE 0)
    + (IF i.previous_gpa # None
          /\ Gt(Sub(Val(i.previous_gpa), Val(i.current_gpa)), 2)
       THEN 25 ELSE 0)
    + (IF i.lms_last_active_days # None /\ Val(i.lms_last_active_days) > 14
       THEN 20 ELSE 0)
    + (IF i.failed_modules_count = None THEN 0
       ELSE IF Val(i.failed_modules_count) >= 2 THEN 25
       ELSE IF Val(i.failed_modules_count) >= 1 THEN 15 ELSE 0)
    + (IF i.missed_assessments_count = None THEN 0
       ELSE IF Val(i.missed_assessments_count) >= 3 THEN 20
       ELSE IF Val(i.missed_assessments_count) >= 1 THEN 10 ELSE 0)
    + (IF i.course_load_credits # None /\ Val(i.course_load_credits) >= 21
       THEN 10 ELSE 0)

AbsentTreatedAsNotTriggered ==
    /\ res.kind = "returned"
    /\ res.score = Min(100, PresentRuleSum(inp))
    /\ SumPoints(res.reasons) = PresentRuleSum(inp)

\* C17: whichever of the six numeric signals are None, calculate_risk
\* returns, the rules of the absent signals not triggered.
C17_AnyAbsentSignalTolerated ==
    op # "init" => AbsentTreatedAsNotTriggered

\* What calculate_risk does with absent signals: previous_gpa,
\* failed_modules_count, missed_assessments_count and course_load_credits are
\* tolerated; without attendance_pct or lms_last_active_days it raises
\* TypeError.
AbsentOptionalSignalsTolerated ==
    op # "init" =>
        IF inp.attendance_pct # None /\ inp.lms_last_active_days # None
        THEN AbsentTreatedAsNotTriggered
        ELSE res.kind = "raised" /\ res.exc = "TypeError"

(***************************************************************************)
(* SpecDecide: DecisionAgent.recommend for every key, context and          *)
(* behaviour of the advisory service.                                      *)
(***************************************************************************)
\* The service is not contacted without a key, and only a parsed reply
\* carries a JSON value.
InitDecide ==
    /\ RiskIdle
    /\ RunIdle
    /\ api_key \in ApiKeys
    /\ context \in Contexts
    /\ svc \in SvcStates \cup {"unused"}
    /\ is_configured(api_key) <=> svc # "unused"
    /\ candidate \in IF svc = "json_value" THEN Candidates ELSE {NoCandidate}
    /\ outcome = NoOutcome
    /\ calls = 0

\* One call of recommend.
Recommend ==
    /\ outcome.kind = "none"
    /\ outcome' = recommend(api_key, context, svc, candidate)
    /\ calls' = recommend_posts(api_key, context, svc, candidate)
    /\ UNCHANGED <<api_key, context, svc, candidate>>
    /\ UNCHANGED riskVars
    /\ UNCHANGED runVars

NextDecide == Recommend

SpecDecide == InitDecide /\ [][NextDecide]_vars

(***************************************************************************)
(* Claims about DecisionAgent (checked under SpecDecide)                   *)
(***************************************************************************)
Called == outcome.kind # "none"

Tiers == {JStr(<<"LOW">>), JStr(<<"MEDIUM">>), JStr(<<"HIGH">>)}

\* The recommendation passes the checks of _validate.
PassesValidation(rec) == _validate(rec).kind = "returned"

\* C1: for every risk tier and every state of the advisory service,
\* recommend returns a Recommendation that passes the checks of _validate.
C1_RecommendReturnsValidRecommendation ==
    (Called /\ context.risk = "object" /\ context.level \in Tiers) =>
        /\ outcome.kind = "returned"
        /\ PassesValidation(outcome.rec)

\* C2: when the service is configured and the call fails for any reason,
\* recommend returns the fallback recommendation and raises nothing.
C2_ServiceFailureFallsBack ==
    (Called /\ is_configured(api_key) /\ svc \in SvcStates \ {"json_value"}) =>
        outcome = Returned(_fallback(context))

\* A valid JSON value that deviates from the Recommendation shape in the ways
\* C3 lists: not an object, priority a list or object, recommended_actions
\* not a list.
DeviatesInShape(c) ==
    \/ c.t # "object"
    \/ c.priority.t \in {"list", "object"}
    \/ c.recommended_actions.t # "list"

\* C3: every such deviation is treated as a validation failure: recommend
\* returns the fallback recommendation without raising.
C3_ShapeDeviationFallsBack ==
    (Called /\ svc = "json_value" /\ DeviatesInShape(candidate)) =>
        outcome = Returned(_fallback(context))

\* A text value that is missing, not a string, or blank after trimming.
BlankValue(j) == j.t # "str" \/ Strip(j.s) = <<>>

\* An action that lacks one of the keys type, owner, rationale.
LacksKey(a) ==
    \/ a.t # "object"
    \/ a.type.t = "absent" \/ a.owner.t = "absent" \/ a.rationale.t = "absent"

\* The defects of a candidate object that C8 lists.
Defective(c) ==
    \/ ~ (c.priority.t = "str" /\ c.priority.s \in {<<"LOW">>, <<"MEDIUM">>, <<"HIGH">>})
    \/ c.recommended_actions.t # "list"
    \/ c.recommended_actions.items = <<>>
    \/ \E k \in 1 .. Len(c.recommended_actions.items) :
           LacksKey(c.recommended_actions.items[k])
    \/ BlankValue(c.explanation)

\* C8: _validate raises GeminiError (which recommend turns into fallback) for
\* every candidate object with one of the listed defects, and accepts every
\* candidate object with none of them.
C8_ValidateRejectsExactlyDefective ==
    (Called /\ svc = "json_value" /\ candidate.t = "object") =>
        IF Defective(candidate)
        THEN /\ _validate(candidate).kind = "raised"
             /\ _validate(candidate).exc = "GeminiError"
             /\ outcome = Returned(_fallback(context))
        ELSE /\ _validate(candidate).kind = "returned"
             /\ outcome = Returned(JObject(candidate.priority,
                                           candidate.recommended_actions,
                                           candidate.explanation))

\* C9: no Recommendation returned by recommend holds an action whose type,
\* owner or rationale is empty, blank, null or not a string.
C9_NoEmptyActionFields ==
    (Called /\ outcome.kind = "returned") =>
        \A k \in 1 .. Len(outcome.rec.recommended_actions.items) :
            LET a == outcome.rec.recommended_actions.items[k]
            IN  /\ ~ BlankValue(a.type)
                /\ ~ BlankValue(a.owner)
                /\ ~ BlankValue(a.rationale)

\* C10: for every risk level in the context (a tier, or a missing, null or
\* unrecognised level) _fallback returns a recommendation that _validate
\* accepts unchanged, and it is what recommend returns without a key.
C10_FallbackPassesValidation ==
    Called =>
        LET fb == _fallback(context)
        IN  /\ _validate(fb) = Returned(fb)
            /\ ~ is_configured(api_key) => outcome = Returned(fb)

\* recommend fell back for a context whose level is not a tier.
C10_Witness ==
    /\ Called
    /\ ~ is_configured(api_key)
    /\ context.risk = "object"
    /\ context.level = JStr(<<"CRITICAL">>)
    /\ outcome.kind = "returned"
    /\ outcome.rec.priority = JStr(<<"LOW">>)
    /\ Len(outcome.rec.recommended_actions.items) = 1

\* The call failed: the service gave no JSON value, or _validate raised on it.
ServiceFailed ==
    /\ is_configured(api_key)
    /\ svc # "json_value" \/ _validate(candidate).kind = "raised"

\* C11: during one recommend call the service is called zero times without
\* a key and exactly once with one, never a second time, and the first
\* failure of any kind leads directly to the fallback recommendation.
C11_OneCallThenFallback ==
    Called =>
        /\ calls = IF is_configured(api_key) THEN 1 ELSE 0
        /\ ServiceFailed => outcome = Returned(_fallback(context))

\* recommend took the fallback path: no key, or a GeminiError from the
\* service call or from validation.
FellBack ==
    \/ ~ is_configured(api_key)
    \/ LET g == generate_json(api_key, svc, candidate)
       IN  \/ g.kind = "raised" /\ g.exc = "GeminiError"
           \/ /\ g.kind = "returned"
              /\ _validate(g.rec).kind = "raised"
              /\ _validate(g.rec).exc = "GeminiError"

\* C12: every returned Recommendation is tagged with the path that produced
\* it: source=fallback from the fallback policy, source=advisory-service for
\* validated service output.
C12_SourceTagNamesPath ==
    (Called /\ outcome.kind = "returned") =>
        outcome.rec.source = IF FellBack THEN JStr(<<"fallback">>)
                             ELSE JStr(<<"advisory-service">>)

Owners == {JStr(<<"advisor">>), JStr(<<"student">>), JStr(<<"admin">>)}

\* C13: in every returned Recommendation every action's owner is one of
\* advisor, student, admin.
C13_OwnersAreInEnum ==
    (Called /\ outcome.kind = "returned") =>
        \A k \in 1 .. Len(outcome.rec.recommended_actions.items) :
            outcome.rec.recommended_actions.items[k].owner \in Owners

\* C14: the fallback recommendation depends on the risk tier alone: its
\* priority is the tier; HIGH has the three fixed actions, all owned by the
\* advisor, MEDIUM the two fixed actions, LOW the one.
C14_FallbackFixedPerTier ==
    (Called /\ FellBack /\ context.risk = "object" /\ context.level \in Tiers) =>
        /\ outcome.kind = "returned"
        /\ outcome.rec.priority = context.level
        /\ outcome.rec.recommended_actions.t = "list"
        /\ LET items == outcome.rec.recommended_actions.items
           IN  /\ context.level = JStr(<<"HIGH">>) =>
                      /\ items = HighActions
                      /\ Len(items) = 3
                      /\ \A k \in 1 .. 3 : items[k].owner = JStr(<<"advisor">>)
               /\ context.level = JStr(<<"MEDIUM">>) =>
                      items = MediumActions /\ Len(items) = 2
               /\ context.level = JStr(<<"LOW">>) =>
                      items = LowActions /\ Len(items) = 1

\* The service's reply (priority LOW, an empty action list) was rejected for
\* a MEDIUM context, and the MEDIUM fallback came back.
C14_Witness ==
    /\ Called
    /\ is_configured(api_key)
    /\ svc = "json_value"
    /\ candidate.priority = JStr(<<"LOW">>)
    /\ candidate.recommended_actions = ActionsList(<<>>)
    /\ context.level = JStr(<<"MEDIUM">>)
    /\ outcome.kind = "returned"
    /\ outcome.rec.priority = JStr(<<"MEDIUM">>)
    /\ Len(outcome.rec.recommended_actions.items) = 2

\* The reason of the first check, in the order priority, recommended_actions,
\* each action in list order, explanation, that a candidate object violates;
\* "" when it violates none.
FirstViolation(c) ==
    LET items == c.recommended_actions.items
        bad == {k \in 1 .. Len(items) : LacksKey(items[k])}
    IN  IF ~ (c.priority.t = "str"
              /\ c.priority.s \in {<<"LOW">>, <<"MEDIUM">>, <<"HIGH">>})
        THEN "Invalid priority"
        ELSE IF c.recommended_actions.t # "list" \/ items = <<>>
        THEN "recommended_actions must be a non-empty list"
        ELSE IF bad # {}
        THEN LET k == CHOOSE j \in bad : \A m \in bad : j <= m
             IN  IF items[k].t # "object" THEN "Action must be object"
                 ELSE "Action missing required fields"
        ELSE IF BlankValue(c.explanation) THEN "explanation required"
        ELSE ""

\* C15: _validate reports the reason of the first violated check, and what
\* it returns is the candidate's three fields as they were, never a repaired
\* recommendation.
C15_FirstViolatedCheckReported ==
    (Called /\ svc = "json_value" /\ candidate.t = "object") =>
        LET v == _validate(candidate)
            r == FirstViolation(candidate)
            asIs == JObject(candidate.priority, candidate.recommended_actions,
                            candidate.explanation)
        IN  /\ IF r = ""
               THEN v = Returned(asIs)
               ELSE v.kind = "raised" /\ v.exc = "GeminiError" /\ v.msg = r
            /\ outcome.kind = "returned" =>
                   outcome.rec \in {asIs, _fallback(context)}

(***************************************************************************)
(* agent/memory_store.py: the three tables run_agent writes.  A row of the *)
(* two histories gets the next id, which is its position in the sequence.  *)
(***************************************************************************)
\* COALESCE(excluded.x, students.x)
Coalesce(new, old) == IF new # None THEN new ELSE old

upsert_studentReplacing(tbl, student_id, full_name, major, year_level) ==
    {r \in tbl : r.student_id # student_id}
        \cup {[student_id |-> student_id, full_name |-> full_name,
                major |-> major, year_level |-> year_level]}

upsert_student(tbl, student_id, full_name, major, year_level) ==
    LET old == {r \in tbl : r.student_id = student_id}
    IN  IF old = {}
        THEN tbl \cup {[student_id |-> student_id, full_name |-> full_name,
                        major |-> major, year_level |-> year_level]}
        ELSE (tbl \ old) \cup
                 {[student_id |-> student_id,
                   full_name |-> Coalesce(full_name, r.full_name),
                   major |-> Coalesce(major, r.major),
                   year_level |-> Coalesce(year_level, r.year_level)] : r \in old}

add_risk_snapshotReplacing(tbl, student_id, asof, score, level, reasons) ==
    LET row == [student_id |-> student_id, as_of |-> _iso(asof), score |-> score,
                level |-> level, reasons |-> reasons]
    IN  IF \E k \in 1 .. Len(tbl) : tbl[k].student_id = student_id
        THEN [k \in 1 .. Len(tbl) |->
                 IF tbl[k].student_id = student_id THEN row ELSE tbl[k]]
        ELSE Append(tbl, row)

add_risk_snapshot(tbl, student_id, asof, score, level, reasons) ==
    Append(tbl, [student_id |-> student_id, as_of |-> _iso(asof), score |-> score,
                 level |-> level, reasons |-> reasons])

add_recommendation(tbl, student_id, asof, score, level, actions, priority, explanation, model_used) ==
    Append(tbl, [student_id |-> student_id, as_of |-> _iso(asof),
                 risk_score |-> score, risk_level |-> level,
                 recommended_actions |-> actions, priority |-> priority,
                 explanation |-> explanation, model_used |-> model_used])

add_intervention(tbl, student_id, asof, intervention_type, notes, status, outcome_) ==
    Append(tbl, [student_id |-> student_id, as_of |-> _iso(asof),
                 intervention_type |-> intervention_type, notes |-> notes,
                 status |-> status, outcome |-> outcome_])

\* The INSERT of add_student_signals names ten columns and has eight
\* placeholders: sqlite3 refuses the statement whatever the arguments are
\* ("8 values for 10 columns"), so the table is left as it is.
add_student_signals(tbl, row) == tbl

\* The ISO timestamps of the model, in chronological order, which is the
\* order SQLite compares them in.
AsOfAll == <<"2026-01-01T00:00:00", "2026-01-02T00:00:00">>
Rank(asof) == CHOOSE k \in 1 .. Len(AsOfAll) : AsOfAll[k] = asof

\* The ids (positions) of the rows of tbl of one student, and the greatest id
\* per student: SELECT MAX(id) .. GROUP BY student_id.
IdsOf(tbl, student_id) == {k \in 1 .. Len(tbl) : tbl[k].student_id = student_id}
MaxIds(tbl) ==
    {k \in 1 .. Len(tbl) : \A j \in IdsOf(tbl, tbl[k].student_id) : j <= k}

\* The orders in which a SELECT can return the rows ids: every sequence of
\* them in which no row comes after one that the ORDER BY clause puts behind
\* it; before is the set of the pairs <<i, j>> of which it puts i first. SQL
\* leaves the order of the rows that are equal in the ORDER BY columns open.
OrdersOf(ids, before) ==
    {o \in [1 .. Cardinality(ids) -> ids] :
        /\ \A a, b \in 1 .. Cardinality(ids) : o[a] = o[b] => a = b
        /\ \A a, b \in 1 .. Cardinality(ids) :
               a < b => <<o[b], o[a]>> \notin before}

\* ORDER BY as_of ASC
ByAsOfAsc(tbl, ids) ==
    OrdersOf(ids, {p \in ids \X ids :
                      Rank(tbl[p[1]].as_of) < Rank(tbl[p[2]].as_of)})

\* ORDER BY as_of DESC
ByAsOfDescOnly(tbl, ids) ==
    OrdersOf(ids, {p \in ids \X ids :
                      Rank(tbl[p[1]].as_of) > Rank(tbl[p[2]].as_of)})

\* ORDER BY as_of DESC, id DESC
RECURSIVE ByAsOfDesc(_, _)
ByAsOfDesc(tbl, ids) ==
    IF ids = {} THEN <<>>
    ELSE LET first == CHOOSE i \in ids : \A j \in ids :
                          \/ Rank(tbl[i].as_of) > Rank(tbl[j].as_of)
                          \/ Rank(tbl[i].as_of) = Rank(tbl[j].as_of) /\ i >= j
         IN  <<first>> \o ByAsOfDesc(tbl, ids \ {first})

\* ORDER BY score DESC, as_of DESC
ByScoreDesc(tbl, ids) ==
    OrdersOf(ids, {p \in ids \X ids :
                      \/ tbl[p[1]].score > tbl[p[2]].score
                      \/ /\ tbl[p[1]].score = tbl[p[2]].score
                         /\ Rank(tbl[p[1]].as_of) > Rank(tbl[p[2]].as_of)})

\* The students row a JOIN finds for a student_id.
ProfileFor(studs, student_id) == CHOOSE r \in studs : r.student_id = student_id
HasProfile(studs, student_id) == \E r \in studs : r.student_id = student_id

\* The lists list_latest_risks can return. The tables of the model stay far
\* below the LIMIT of the queries.
list_latest_risks(snaps, studs) ==
    LET ids == {k \in MaxIds(snaps) : HasProfile(studs, snaps[k].student_id)}
    IN  {[n \in 1 .. Len(order) |->
            [student_id |-> snaps[order[n]].student_id,
             full_name |-> ProfileFor(studs, snaps[order[n]].student_id).full_name,
             as_of |-> snaps[order[n]].as_of,
             score |-> snaps[order[n]].score,
             level |-> snaps[order[n]].level]] : order \in ByScoreDesc(snaps, ids)}

\* The lists one SELECT of get_student_timeline can return; each row with
\* its id.
TimelineOf(tbl, student_id) ==
    {[n \in 1 .. Len(order) |-> [id |-> order[n], row |-> tbl[order[n]]]] :
        order \in ByAsOfAsc(tbl, IdsOf(tbl, student_id))}

\* None, or the latest signals row of the student with its id.
get_latest_student_signals(sigs, student_id) ==
    LET order == ByAsOfDesc(sigs, IdsOf(sigs, student_id))
    IN  IF order = <<>> THEN None
        ELSE Some([id |-> order[1], row |-> sigs[order[1]]])

\* The lists list_latest_signals can return.
list_latest_signals(sigs, studs) ==
    LET ids == {k \in MaxIds(sigs) : HasProfile(studs, sigs[k].student_id)}
    IN  {[n \in 1 .. Len(order) |->
            [full_name |-> ProfileFor(studs, sigs[order[n]].student_id).full_name,
             row |-> sigs[order[n]]]] : order \in ByAsOfDescOnly(sigs, ids)}

(***************************************************************************)
(* agent/agent_loop.py: the rows of df and their conversions.              *)
(* A cell is a number, NaN (an empty CSV field, a NULL of the store), or a *)
(* string: t is its kind, v the number, s the string. A whole number is    *)
(* "num" where it prints without a fraction (an int, or the text of a      *)
(* field in a column of strings) and "float" in a float64 column.          *)
(***************************************************************************)
Num(n)     == [t |-> "num", v |-> n, s |-> ""]
Float(n)   == [t |-> "float", v |-> n, s |-> ""]
NaN        == [t |-> "nan", v |-> 0, s |-> "nan"]
Text(str)  == [t |-> "str", v |-> 0, s |-> str]

\* The fields pd.read_csv reads as NaN (its default na_values), and the cell
\* it makes of a field that is not a number.
NaStrings ==
    {"", "#N/A", "#N/A N/A", "#NA", "-1.#IND", "-1.#QNAN", "-NaN", "-nan",
     "1.#IND", "1.#QNAN", "<NA>", "N/A", "NA", "NULL", "NaN", "None", "n/a",
     "nan", "null"}
Field(str) == IF str \in NaStrings THEN NaN ELSE Text(str)

\* A NULL in a column of strings stays None in df; a key that df does not
\* have is read with row.get, which gives its default.
NoneCell   == [t |-> "none", v |-> 0, s |-> "None"]
AbsentCell == [t |-> "absent", v |-> 0, s |-> ""]

\* pd.isna(cell): NaN and None
isna(c) == c.t \in {"nan", "none", "absent"}

\* The exception of float(cell) and of int(cell), "" when it returns:
\* ValueError for a string that is not a number, and from int for NaN;
\* TypeError for None.
FloatError(c) ==
    IF c.t = "str" THEN "ValueError"
    ELSE IF c.t = "none" THEN "TypeError"
    ELSE ""
IntError(c) ==
    IF c.t \in {"str", "nan"} THEN "ValueError"
    ELSE IF c.t = "none" THEN "TypeError"
    ELSE ""

\* str(cell): the digits of a number, with ".0" when it is a float, "nan",
\* "None", the string itself.
PyStr(c) ==
    IF c.t = "num" THEN ToString(c.v)
    ELSE IF c.t = "float" THEN ToString(c.v) \o ".0"
    ELSE c.s

\* str(row.get(k, "")) or None: str(NaN) is "nan", which is kept.
StrOrNone(c) == IF PyStr(c) = "" THEN None ELSE Some(PyStr(c))

\* float(cell) of a cell that is a number or NaN
FloatOf(c) == IF c.t = "nan" THEN FloatNaN ELSE c.v

\* int(row.get("year_level")) if not pd.isna(row.get("year_level")) else None
YearRaises(row) == ~ isna(row.year_level) /\ IntError(row.year_level) # ""
YearOrNone(row) == IF isna(row.year_level) THEN None ELSE Some(row.year_level.v)

\* The exception the construction of RiskInput (lines 53-63) raises, "" when
\* it raises none: that of the first conversion that fails, in the order of
\* the arguments. The optional cells are converted only when not pd.isna.
OptionalError(c, err) == IF isna(c) THEN "" ELSE err

SignalsError(row) ==
    IF FloatError(row.current_gpa) # "" THEN FloatError(row.current_gpa)
    ELSE IF OptionalError(row.previous_gpa, FloatError(row.previous_gpa)) # ""
    THEN FloatError(row.previous_gpa)
    ELSE IF FloatError(row.attendance_pct) # "" THEN FloatError(row.attendance_pct)
    ELSE IF IntError(row.lms_last_active_days) # ""
    THEN IntError(row.lms_last_active_days)
    ELSE IF OptionalError(row.failed_modules_count,
                          IntError(row.failed_modules_count)) # ""
    THEN IntError(row.failed_modules_count)
    ELSE IF OptionalError(row.missed_assessments_count,
                          IntError(row.missed_assessments_count)) # ""
    THEN IntError(row.missed_assessments_count)
    ELSE OptionalError(row.course_load_credits, IntError(row.course_load_credits))

SignalsRaise(row) == SignalsError(row) # ""

ZeroIfNa(c) == IF isna(c) THEN 0 ELSE c.v

RiskInputOf(row, asof) ==
    [student_id |-> row.student_id,
     as_of |-> Some(asof),
     current_gpa |-> Some(FloatOf(row.current_gpa)),
     previous_gpa |-> IF isna(row.previous_gpa) THEN None
                      ELSE Some(FloatOf(row.previous_gpa)),
     attendance_pct |-> Some(FloatOf(row.attendance_pct)),
     lms_last_active_days |-> Some(row.lms_last_active_days.v),
     failed_modules_count |-> Some(ZeroIfNa(row.failed_modules_count)),
     missed_assessments_count |-> Some(ZeroIfNa(row.missed_assessments_count)),
     course_load_credits |-> Some(ZeroIfNa(row.course_load_credits))]

\* The context run_agent builds for recommend, as recommend reads it.
RunContext(risk) == [risk |-> "object", level |-> JStr(<<risk.level>>)]

\* decision_agent.gemini.model (config/settings.py)
GeminiModel == "gemini-1.5-flash"

ModelUsed(key) == IF is_configured(key) THEN Some(GeminiModel) ELSE None

OutputOfScoreless(asof, row, i, risk, rec) ==
    [as_of |-> isoformat(asof),
     student |-> [student_id |-> row.student_id,
                  full_name |-> PyStr(row.full_name),
                  major |-> PyStr(row.major),
                  year_level |-> YearOrNone(row)],
     signals |-> [current_gpa |-> i.current_gpa,
                  previous_gpa |-> i.previous_gpa,
                  attendance_pct |-> i.attendance_pct,
                  lms_last_active_days |-> i.lms_last_active_days,
                  failed_modules_count |-> i.failed_modules_count,
                  missed_assessments_count |-> i.missed_assessments_count,
                  course_load_credits |-> i.course_load_credits],
     risk |-> [score |-> 0, level |-> risk.level, reasons |-> <<>>],
     constraints |-> [no_punishment |-> TRUE, no_dropout_prediction |-> TRUE,
                      no_diagnosis |-> TRUE, human_in_the_loop |-> TRUE],
     recommendation |-> rec]

\* One element of all_out.
OutputOf(asof, row, i, risk, rec) ==
    [as_of |-> isoformat(asof),
     student |-> [student_id |-> row.student_id,
                  full_name |-> PyStr(row.full_name),
                  major |-> PyStr(row.major),
                  year_level |-> YearOrNone(row)],
     signals |-> [current_gpa |-> i.current_gpa,
                  previous_gpa |-> i.previous_gpa,
                  attendance_pct |-> i.attendance_pct,
                  lms_last_active_days |-> i.lms_last_active_days,
                  failed_modules_count |-> i.failed_modules_count,
                  missed_assessments_count |-> i.missed_assessments_count,
                  course_load_credits |-> i.course_load_credits],
     risk |-> [score |-> risk.score, level |-> risk.level, reasons |-> risk.reasons],
     constraints |-> [no_punishment |-> TRUE, no_dropout_prediction |-> TRUE,
                      no_diagnosis |-> TRUE, human_in_the_loop |-> TRUE],
     recommendation |-> rec]

\* A signals row as add_student_signals writes it.
SignalsRow(student_id, asof) ==
    [student_id |-> student_id, as_of |-> _iso(asof),
     current_gpa |-> Some(12), previous_gpa |-> None,
     attendance_pct |-> Some(59), lms_last_active_days |-> Some(15),
     failed_modules_count |-> Some(0), missed_assessments_count |-> Some(0),
     course_load_credits |-> Some(0), source |-> "manual_entry"]

\* A row of df made of a row of list_latest_signals: the columns major and
\* year_level are not selected.
\* The cell of row n in column col of pd.DataFrame(rows). A column that is
\* NULL in every row keeps None (its dtype is object); a column with a number
\* in some row and a NULL in another is float64, the NULL NaN. The two GPAs
\* and the attendance are floats in the store; the other numbers are ints
\* unless their column is float64.
NumOrNaN(listed, n, col) ==
    LET all_null  == \A k \in 1 .. Len(listed) : listed[k].row[col] = None
        some_null == \E k \in 1 .. Len(listed) : listed[k].row[col] = None
        is_float  == col \in {"current_gpa", "previous_gpa", "attendance_pct"}
    IN  IF listed[n].row[col] # None
        THEN IF some_null \/ is_float THEN Float(Val(listed[n].row[col]))
             ELSE Num(Val(listed[n].row[col]))
        ELSE IF all_null THEN NoneCell
        ELSE NaN

DfRowOf(listed, n) ==
    [student_id |-> listed[n].row.student_id,
     full_name |-> IF listed[n].full_name = None THEN NoneCell
                   ELSE Text(Val(listed[n].full_name)),
     major |-> AbsentCell,
     year_level |-> AbsentCell,
     current_gpa |-> NumOrNaN(listed, n, "current_gpa"),
     previous_gpa |-> NumOrNaN(listed, n, "previous_gpa"),
     attendance_pct |-> NumOrNaN(listed, n, "attendance_pct"),
     lms_last_active_days |-> NumOrNaN(listed, n, "lms_last_active_days"),
     failed_modules_count |-> NumOrNaN(listed, n, "failed_modules_count"),
     missed_assessments_count |-> NumOrNaN(listed, n, "missed_assessments_count"),
     course_load_credits |-> NumOrNaN(listed, n, "course_load_credits")]

DfOf(listed) == [n \in 1 .. Len(listed) |-> DfRowOf(listed, n)]

(***************************************************************************)
(* The inputs of run_agent                                                 *)
(***************************************************************************)
\* A student on whom every rule fires (HIGH).
GoodRowHigh ==
    [student_id |-> "S1", full_name |-> Text("Ann"), major |-> Text("CS"),
     year_level |-> Num(2),
     current_gpa |-> Num(8), previous_gpa |-> Num(11),
     attendance_pct |-> Num(59), lms_last_active_days |-> Num(15),
     failed_modules_count |-> Num(2), missed_assessments_count |-> Num(3),
     course_load_credits |-> Num(21)]

\* A student with the optional cells empty, on whom two rules fire (MEDIUM).
GoodRowMedium ==
    [student_id |-> "S2", full_name |-> NaN, major |-> NaN,
     year_level |-> NaN,
     current_gpa |-> Num(12), previous_gpa |-> NaN,
     attendance_pct |-> Num(59), lms_last_active_days |-> Num(15),
     failed_modules_count |-> NaN, missed_assessments_count |-> NaN,
     course_load_credits |-> NaN]

\* The same student with no last-activity value, and with an attendance
\* that is not a number.
RowWithoutLms  == [GoodRowMedium EXCEPT !.student_id = "S3",
                                        !.lms_last_active_days = NaN]
RowWithTextAttendance ==
    [GoodRowHigh EXCEPT !.student_id = "S5",
                        !.attendance_pct = Field("absent")]

\* A student whose GPA field is "n/a": read_csv reads it as an empty cell,
\* float(NaN) is NaN, and the GPA rule does not fire (HIGH by the others).
RowWithNaGpa == [GoodRowHigh EXCEPT !.student_id = "S4",
                                    !.current_gpa = Field("n/a")]

\* A student whose year is not a number.
RowWithTextYear == [GoodRowHigh EXCEPT !.student_id = "S6",
                                       !.year_level = Field("second")]

\* A student whose attendance cell is empty: float(NaN) is NaN, which no
\* comparison of the scorer finds below 60 (LOW, one rule).
RowWithoutAttendance ==
    [GoodRowMedium EXCEPT !.student_id = "S7", !.attendance_pct = NaN]

\* A student whose name and major are numeric codes.
RowWithCodes ==
    [GoodRowHigh EXCEPT !.student_id = "S8", !.full_name = Num(7),
                        !.major = Num(101)]

GoodRows == {GoodRowHigh, GoodRowMedium, RowWithoutAttendance, RowWithCodes,
             RowWithNaGpa}
BadRows  == {RowWithoutLms, RowWithTextAttendance}
RowSamples == GoodRows \cup BadRows \cup {RowWithTextYear}

MaxBatch == 2

\* The lines of a signals file.
Batches == UNION {[1 .. n -> RowSamples] : n \in 0 .. MaxBatch}

\* pd.read_csv gives a column the dtype float64 when it holds numbers and at
\* least one empty field, and the dtype object, in which every field stays
\* the text of the file, when a field is text. The columns full_name and
\* major are the two run_agent reads through str().
IsFloatColumn(batch, col) ==
    /\ \E k \in 1 .. Len(batch) : batch[k][col].t = "nan"
    /\ \A k \in 1 .. Len(batch) : batch[k][col].t \in {"nan", "num"}

AsFloat(c) == IF c.t = "num" THEN Float(c.v) ELSE c

read_csv(batch) ==
    [k \in 1 .. Len(batch) |->
        [batch[k] EXCEPT
            !.full_name = IF IsFloatColumn(batch, "full_name")
                          THEN AsFloat(@) ELSE @,
            !.major = IF IsFloatColumn(batch, "major")
                      THEN AsFloat(@) ELSE @]]

\* list_latest_signals returns one row per student.
DistinctStudents(b) ==
    \A j, k \in 1 .. Len(b) : b[j].student_id = b[k].student_id => j = k

\* The run's as_of: a whole second as a caller passes it, or with
\* microseconds as datetime.utcnow() gives it.
AsOfValues == {DateTime(AsOfAll[1], m) : m \in Micros}

\* Replies of the advisory service during a run: a valid one, one with a
\* priority outside the enum, and one that is no object.
RunCandidates ==
    {JObject(JStr(<<"HIGH">>),
             ActionsList(<< Action(JStr(<<"call">>), JStr(<<"advisor">>),
                                   JStr(<<"why">>)) >>),
             JStr(<<"x">>)),
     JObject(JStr(<<"URGENT">>),
             ActionsList(<< Action(JStr(<<"call">>), JStr(<<"advisor">>),
                                   JStr(<<"why">>)) >>),
             JStr(<<"x">>)),
     JNonObject("list")}

\* A student of the store who has no signal rows.
StudentWithoutSignals ==
    [student_id |-> "S0", full_name |-> Some("Zed"), major |-> None,
     year_level |-> None]

\* The signal rows of a store filled by an earlier import, with different
\* observation times and with the same one, and the profile rows of their
\* students.
StoredSignalsHigh ==
    [SignalsRow("S1", DateTime(AsOfAll[1], 0)) EXCEPT
         !.current_gpa = Some(8), !.previous_gpa = Some(11),
         !.failed_modules_count = Some(2), !.missed_assessments_count = Some(3),
         !.course_load_credits = Some(21)]
StoredSignalsMedium == SignalsRow("S2", DateTime(AsOfAll[2], 0))
StoredSignalsSameTime == SignalsRow("S2", DateTime(AsOfAll[1], 0))

StoredProfile(student_id) ==
    IF student_id = "S1"
    THEN [student_id |-> "S1", full_name |-> Some("Ann"), major |-> Some("CS"),
          year_level |-> Some(2)]
    ELSE [student_id |-> student_id, full_name |-> None, major |-> None,
          year_level |-> None]

SignalTables ==
    {t \in UNION {[1 .. n -> {StoredSignalsHigh, StoredSignalsMedium,
                              StoredSignalsSameTime}] :
                      n \in 0 .. MaxBatch} : DistinctStudents(t)}

(***************************************************************************)
(* SpecRun: one invocation of run_agent on a batch, against a store whose  *)
(* writes can fail and an advisory service that behaves in any way.        *)
(***************************************************************************)
InitRun ==
    /\ RiskIdle
    /\ api_key \in ApiKeys
    /\ context = IdleContext
    /\ svc = "unused"
    /\ candidate = NoCandidate
    /\ outcome = NoOutcome
    /\ calls = 0
    /\ pc = "start"
    /\ use_db \in BOOLEAN
    /\ \E others \in SUBSET {StudentWithoutSignals}, t \in SignalTables :
           /\ use_db \/ t = <<>>
           /\ signals = t
           /\ students = {StoredProfile(t[k].student_id) : k \in 1 .. Len(t)}
                             \cup others
    /\ rows \in IF use_db
                THEN {DfOf(l) : l \in list_latest_signals(signals, students)}
                ELSE {read_csv(b) : b \in Batches}
    /\ idx = 0
    /\ as_of \in AsOfValues
    /\ snapshots = <<>>
    /\ recs = <<>>
    /\ all_out = <<>>
    /\ out_file = None
    /\ run = NoRun
    /\ interventions = <<>>
    /\ ret = NoRet
    /\ reader = NoReader

AbortReturning(exc) ==
    /\ run' = RunReturned(Len(all_out))
    /\ pc' = "failed"

\* run_agent raises the exception exc.
Abort(exc) ==
    /\ run' = RunRaised(exc)
    /\ pc' = "failed"

\* Lines 34-38: the store has no signal rows.
NoSignalsFound ==
    /\ pc = "start"
    /\ use_db /\ rows = <<>>
    /\ Abort("ValueError")
    /\ UNCHANGED <<use_db, rows, idx, as_of, students, snapshots, recs, all_out,
                   out_file>>
    /\ UNCHANGED storeVars
    /\ UNCHANGED riskVars
    /\ UNCHANGED decideVars

LoadRowsUnchecked ==
    /\ pc = "start"
    /\ idx' = 1
    /\ pc' = IF rows = <<>> THEN "write" ELSE "upsert"
    /\ UNCHANGED <<use_db, rows, as_of, students, snapshots, recs, all_out,
                   out_file, run>>
    /\ UNCHANGED storeVars
    /\ UNCHANGED riskVars
    /\ UNCHANGED decideVars

\* Lines 34-44: df is loaded and the loop is entered (or skipped).
LoadRows ==
    /\ pc = "start"
    /\ ~ (use_db /\ rows = <<>>)
    /\ idx' = 1
    /\ pc' = IF rows = <<>> THEN "write" ELSE "upsert"
    /\ UNCHANGED <<use_db, rows, as_of, students, snapshots, recs, all_out,
                   out_file, run>>
    /\ UNCHANGED storeVars
    /\ UNCHANGED riskVars
    /\ UNCHANGED decideVars

\* Lines 45-63: a conversion of a cell of the row raises ValueError, which
\* nothing in run_agent catches.
RowMalformed ==
    /\ \/ pc = "upsert" /\ YearRaises(rows[idx])
       \/ pc = "score" /\ SignalsRaise(rows[idx])
    /\ Abort(IF pc = "upsert" THEN IntError(rows[idx].year_level)
             ELSE SignalsError(rows[idx]))
    /\ UNCHANGED <<use_db, rows, idx, as_of, students, snapshots, recs, all_out,
                   out_file>>
    /\ UNCHANGED storeVars
    /\ UNCHANGED riskVars
    /\ UNCHANGED decideVars

\* Lines 45-51
UpsertStudent ==
    /\ pc = "upsert"
    /\ ~ YearRaises(rows[idx])
    /\ students' = upsert_student(students, rows[idx].student_id,
                                  StrOrNone(rows[idx].full_name),
                                  StrOrNone(rows[idx].major),
                                  YearOrNone(rows[idx]))
    /\ pc' = "score"
    /\ UNCHANGED <<use_db, rows, idx, as_of, snapshots, recs, all_out, out_file, run>>
    /\ UNCHANGED storeVars
    /\ UNCHANGED riskVars
    /\ UNCHANGED decideVars

\* A write of the store raises (sqlite3.OperationalError), at any of the
\* three calls.
StoreWriteFails ==
    /\ \/ pc = "upsert" /\ ~ YearRaises(rows[idx])
       \/ pc = "score" /\ ~ SignalsRaise(rows[idx])
       \/ pc = "add_rec"
    /\ Abort("OperationalError")
    /\ UNCHANGED <<use_db, rows, idx, as_of, students, snapshots, recs, all_out,
                   out_file>>
    /\ UNCHANGED storeVars
    /\ UNCHANGED riskVars
    /\ UNCHANGED decideVars

ScoreStudentWithoutSnapshot ==
    /\ pc = "score"
    /\ ~ SignalsRaise(rows[idx])
    /\ inp' = RiskInputOf(rows[idx], as_of)
    /\ res' = calculate_risk(inp')
    /\ pc' = "recommend"
    /\ UNCHANGED <<inp0, res0, op>>
    /\ UNCHANGED storeVars
    /\ UNCHANGED <<use_db, rows, idx, as_of, students, snapshots, recs, all_out,
                   out_file, run>>
    /\ UNCHANGED decideVars

\* Lines 53-65
ScoreStudent ==
    /\ pc = "score"
    /\ ~ SignalsRaise(rows[idx])
    /\ inp' = RiskInputOf(rows[idx], as_of)
    /\ res' = calculate_risk(inp')
    /\ snapshots' = add_risk_snapshot(snapshots, rows[idx].student_id, as_of,
                                      res'.score, res'.level, res'.reasons)
    /\ pc' = "recommend"
    /\ UNCHANGED <<inp0, res0, op>>
    /\ UNCHANGED storeVars
    /\ UNCHANGED <<use_db, rows, idx, as_of, students, recs, all_out, out_file, run>>
    /\ UNCHANGED decideVars

\* Lines 67-96: the service, if it is called, behaves in any way; an
\* exception of recommend leaves run_agent.
RecommendStudent ==
    /\ pc = "recommend"
    /\ \E sv \in IF is_configured(api_key) THEN SvcStates ELSE {"unused"} :
       \E cand \in IF sv = "json_value" THEN RunCandidates ELSE {NoCandidate} :
           /\ context' = RunContext(res)
           /\ svc' = sv
           /\ candidate' = cand
           /\ outcome' = recommend(api_key, context', sv, cand)
           /\ calls' = recommend_posts(api_key, context', sv, cand)
    /\ IF outcome'.kind = "raised"
       THEN Abort(outcome'.exc)
       ELSE pc' = "add_rec" /\ run' = run
    /\ UNCHANGED api_key
    /\ UNCHANGED <<use_db, rows, idx, as_of, students, snapshots, recs, all_out,
                   out_file>>
    /\ UNCHANGED storeVars
    /\ UNCHANGED riskVars

\* Lines 97-108
AddRecommendation ==
    /\ pc = "add_rec"
    /\ recs' = add_recommendation(recs, rows[idx].student_id, as_of,
                                  res.score, res.level,
                                  outcome.rec.recommended_actions,
                                  outcome.rec.priority,
                                  outcome.rec.explanation,
                                  ModelUsed(api_key))
    /\ all_out' = Append(all_out, OutputOf(as_of, rows[idx], inp, res, outcome.rec))
    /\ idx' = idx + 1
    /\ pc' = IF idx = Len(rows) THEN "write" ELSE "upsert"
    /\ UNCHANGED <<use_db, rows, as_of, students, snapshots, out_file, run>>
    /\ UNCHANGED storeVars
    /\ UNCHANGED riskVars
    /\ UNCHANGED decideVars

\* Lines 110-114
WriteOutput ==
    /\ pc = "write"
    /\ out_file' = Some(all_out)
    /\ run' = RunReturned(Len(all_out))
    /\ pc' = "done"
    /\ UNCHANGED <<use_db, rows, idx, as_of, students, snapshots, recs, all_out>>
    /\ UNCHANGED storeVars
    /\ UNCHANGED riskVars
    /\ UNCHANGED decideVars

NextRun ==
    \/ NoSignalsFound
    \/ LoadRows
    \/ RowMalformed
    \/ UpsertStudent
    \/ StoreWriteFails
    \/ ScoreStudent
    \/ RecommendStudent
    \/ AddRecommendation
    \/ WriteOutput

SpecRun == InitRun /\ [][NextRun]_vars

(***************************************************************************)
(* SpecStore: direct calls of the MemoryStore methods, as the dashboard    *)
(* makes them, and invocations of run_agent, in any sequence, with one     *)
(* get_student_timeline call reading beside them. The advisory service and *)
(* the timestamps a caller passes to run_agent are the subject of SpecRun: *)
(* here run_agent has no API key and takes its as_of from utcnow().        *)
(***************************************************************************)
StoreIds == {"S1", "S2"}

\* The rows of the three histories together, and their bound.
MaxRows == 2
TotalRows == Len(snapshots) + Len(recs) + Len(interventions)

\* The arguments of upsert_student, here with a name only.
NameArgs ==
    [student_id : StoreIds, full_name : {Some("Ann")},
     major : {None}, year_level : {None}]

\* The CSV files run_agent is started on.
CsvBatches == {<<>>, <<GoodRowHigh>>, <<RowWithoutLms>>}

\* The store is empty, or holds the signals of one student from an earlier
\* import.
InitStore ==
    /\ RiskIdle
    /\ DecideIdle
    /\ pc = "idle"
    /\ use_db = FALSE
    /\ rows = <<>>
    /\ idx = 0
    /\ as_of = NoAsOf
    /\ \E imported \in BOOLEAN :
           /\ students = IF imported
                         THEN {[student_id |-> "S1", full_name |-> Some("Ann"),
                                major |-> None, year_level |-> None]}
                         ELSE {}
           /\ signals = IF imported THEN <<SignalsRow("S1", DateTime(AsOfAll[1], 0))>>
                        ELSE <<>>
    /\ snapshots = <<>>
    /\ recs = <<>>
    /\ interventions = <<>>
    /\ all_out = <<>>
    /\ out_file = None
    /\ run = NoRun
    /\ ret = NoRet
    /\ reader = NoReader

\* What a direct call leaves alone besides the tables.
RunUntouched ==
    /\ UNCHANGED <<pc, use_db, rows, idx, as_of, all_out, out_file, run>>
    /\ UNCHANGED reader
    /\ UNCHANGED riskVars
    /\ UNCHANGED decideVars

UpsertStudentCall(argset) ==
    /\ pc = "idle"
    /\ \E a \in argset :
           /\ students' = upsert_student(students, a.student_id, a.full_name,
                                         a.major, a.year_level)
           /\ ret' = StoreCall("upsert_student", a, "returned", "", <<>>)
    /\ UNCHANGED <<snapshots, recs, interventions, signals>>
    /\ RunUntouched

AddRiskSnapshotCall ==
    /\ pc = "idle"
    /\ TotalRows < MaxRows
    /\ \E sid \in StoreIds, k \in 1 .. Len(AsOfAll), m \in Micros :
           /\ HasProfile(students, sid)
           /\ snapshots' = add_risk_snapshot(snapshots, sid, DateTime(AsOfAll[k], m),
                                             10 * k,
                                             risk_level(10 * k), <<>>)
           /\ ret' = StoreCall("add_risk_snapshot", <<>>, "returned", "", <<>>)
    /\ UNCHANGED <<students, recs, interventions, signals>>
    /\ RunUntouched

AddRecommendationCall ==
    /\ pc = "idle"
    /\ TotalRows < MaxRows
    /\ \E sid \in StoreIds, m \in Micros :
           /\ HasProfile(students, sid)
           /\ LET rec == _fallback(RunContext([level |-> "LOW"]))
              IN  recs' = add_recommendation(recs, sid, DateTime(AsOfAll[1], m),
                                             10, "LOW",
                                             rec.recommended_actions, rec.priority,
                                             rec.explanation, None)
           /\ ret' = StoreCall("add_recommendation", <<>>, "returned", "", <<>>)
    /\ UNCHANGED <<students, snapshots, interventions, signals>>
    /\ RunUntouched

AddInterventionCall ==
    /\ pc = "idle"
    /\ TotalRows < MaxRows
    /\ \E sid \in StoreIds, m \in Micros :
           /\ HasProfile(students, sid)
           /\ interventions' = add_intervention(interventions, sid,
                                                DateTime(AsOfAll[1], m),
                                                "advisor_meeting", None,
                                                "proposed", None)
           /\ ret' = StoreCall("add_intervention", <<>>, "returned", "", <<>>)
    /\ UNCHANGED <<students, snapshots, recs, signals>>
    /\ RunUntouched

\* The call raises sqlite3.OperationalError.
AddStudentSignalsCall ==
    /\ pc = "idle"
    /\ \E sid \in StoreIds :
           /\ HasProfile(students, sid)
           /\ signals' = add_student_signals(signals,
                                              SignalsRow(sid, DateTime(AsOfAll[2], 0)))
           /\ ret' = StoreCall("add_student_signals",
                               SignalsRow(sid, DateTime(AsOfAll[2], 0)),
                               "raised", "OperationalError", <<>>)
    /\ UNCHANGED <<students, snapshots, recs, interventions>>
    /\ RunUntouched

ListLatestRisksCall ==
    /\ pc = "idle"
    /\ reader.at = "none"
    /\ \E latest \in list_latest_risks(snapshots, students) :
           ret' = StoreCall("list_latest_risks", <<>>, "returned", "", latest)
    /\ UNCHANGED <<students, snapshots, recs, interventions, signals>>
    /\ RunUntouched

\* get_student_timeline (lines 114-160) reads the three histories with three
\* SELECTs, each of which sees the rows committed when it runs: a row that
\* another session (a direct call, a step of run_agent) inserts between two
\* of them is in the later list only. The call can be made while run_agent
\* is running. From its first SELECT on ret holds no result until a call
\* returns. The direct calls that only read are not taken between the
\* SELECTs: they change no table, so no result of the call depends on them.
ReaderUntouched ==
    /\ UNCHANGED <<pc, use_db, rows, idx, as_of, all_out, out_file, run>>
    /\ UNCHANGED <<students, snapshots, recs, interventions, signals>>
    /\ UNCHANGED riskVars
    /\ UNCHANGED decideVars

\* Lines 116-124
GetStudentTimelineRisks ==
    /\ reader.at = "none"
    /\ \E sid \in StoreIds : \E risks \in TimelineOf(snapshots, sid) :
           reader' = [at |-> "recommendations", student_id |-> sid,
                      risks |-> risks, recommendations |-> <<>>]
    /\ ret' = NoRet
    /\ ReaderUntouched

\* Lines 126-134
GetStudentTimelineRecommendations ==
    /\ reader.at = "recommendations"
    /\ \E recms \in TimelineOf(recs, reader.student_id) :
           reader' = [reader EXCEPT !.at = "interventions",
                                    !.recommendations = recms]
    /\ UNCHANGED ret
    /\ ReaderUntouched

\* Lines 136-160
GetStudentTimelineInterventions ==
    /\ reader.at = "interventions"
    /\ \E intervs \in TimelineOf(interventions, reader.student_id) :
           ret' = StoreCall("get_student_timeline", <<reader.student_id>>,
                            "returned", "",
                            [risks |-> reader.risks,
                             recommendations |-> reader.recommendations,
                             interventions |-> intervs])
    /\ reader' = NoReader
    /\ ReaderUntouched

GetLatestStudentSignalsCall ==
    /\ pc = "idle"
    /\ reader.at = "none"
    /\ \E sid \in StoreIds :
           ret' = StoreCall("get_latest_student_signals", <<sid>>, "returned", "",
                            get_latest_student_signals(signals, sid))
    /\ UNCHANGED <<students, snapshots, recs, interventions, signals>>
    /\ RunUntouched

ListLatestSignalsCall ==
    /\ pc = "idle"
    /\ reader.at = "none"
    /\ \E listed \in list_latest_signals(signals, students) :
           ret' = StoreCall("list_latest_signals", <<>>, "returned", "", listed)
    /\ UNCHANGED <<students, snapshots, recs, interventions, signals>>
    /\ RunUntouched

\* run_agent is invoked: on a CSV file, or on the signals of the store.
StartRun ==
    /\ pc = "idle"
    /\ pc' = "start"
    /\ \E db \in BOOLEAN, batch \in CsvBatches,
          listed \in list_latest_signals(signals, students) :
           /\ use_db' = db
           /\ rows' = IF db THEN DfOf(listed) ELSE read_csv(batch)
    /\ api_key' = None
    /\ as_of' = DateTime(AsOfAll[2], 123456)
    /\ TotalRows + Len(rows') <= MaxRows
    /\ idx' = 0
    /\ all_out' = <<>>
    /\ run' = NoRun
    /\ ret' = NoRet
    /\ UNCHANGED <<students, snapshots, recs, interventions, signals, out_file,
                   reader>>
    /\ UNCHANGED <<context, svc, candidate, outcome, calls>>
    /\ UNCHANGED riskVars

\* run_agent has returned or raised: its locals are gone, the file stays.
ReturnToCaller ==
    /\ pc \in {"done", "failed"}
    /\ pc' = "idle"
    /\ use_db' = FALSE
    /\ rows' = <<>>
    /\ idx' = 0
    /\ as_of' = NoAsOf
    /\ all_out' = <<>>
    /\ run' = NoRun
    /\ inp' = IdleInput
    /\ res' = NoRisk
    /\ api_key' = None
    /\ context' = IdleContext
    /\ svc' = "unused"
    /\ candidate' = NoCandidate
    /\ outcome' = NoOutcome
    /\ calls' = 0
    /\ UNCHANGED <<inp0, res0, op>>
    /\ UNCHANGED <<students, snapshots, recs, interventions, signals, out_file,
                   ret, reader>>

NextStore ==
    \/ UpsertStudentCall(NameArgs)
    \/ AddRiskSnapshotCall
    \/ AddRecommendationCall
    \/ AddInterventionCall
    \/ AddStudentSignalsCall
    \/ ListLatestRisksCall
    \/ GetStudentTimelineRisks
    \/ GetStudentTimelineRecommendations
    \/ GetStudentTimelineInterventions
    \/ GetLatestStudentSignalsCall
    \/ ListLatestSignalsCall
    \/ StartRun
    \/ ReturnToCaller
    \/ NextRun

SpecStore == InitStore /\ [][NextStore]_vars

(***************************************************************************)
(* SpecProfiles: calls of upsert_student with every combination of absent  *)
(* and present fields, on an empty store.                                  *)
(***************************************************************************)
ProfileArgs ==
    [student_id : StoreIds,
     full_name : {None, Some("Ann"), Some("Bea")},
     major : {None, Some("CS"), Some("EE")},
     year_level : {None, Some(1), Some(2)}]

InitProfiles ==
    /\ RiskIdle
    /\ DecideIdle
    /\ RunIdle

NextProfiles == UpsertStudentCall(ProfileArgs)

SpecProfiles == InitProfiles /\ [][NextProfiles]_vars

(***************************************************************************)
(* Claims about run_agent (checked under SpecRun)                          *)
(***************************************************************************)
\* Row k of the batch was scored, has its snapshot and its recommendation in
\* the store, and is in the output file.
Persisted(k) ==
    /\ \E j \in 1 .. Len(snapshots) : snapshots[j].student_id = rows[k].student_id
    /\ \E j \in 1 .. Len(recs) : recs[j].student_id = rows[k].student_id
    /\ out_file # None
    /\ \E j \in 1 .. Len(Val(out_file)) :
           Val(out_file)[j].student.student_id = rows[k].student_id

\* The run ended on the conversion of a signal of row idx.
EndedOnMalformedSignal ==
    /\ pc = "failed"
    /\ run.exc = "ValueError"
    /\ idx \in 1 .. Len(rows)
    /\ SignalsRaise(rows[idx])
    /\ Len(snapshots) = idx - 1

\* C18: a record with a missing or non-numeric required signal fails alone:
\* every well-formed record of the batch is scored, persisted and in the
\* output.
C18_MalformedRecordFailsAlone ==
    EndedOnMalformedSignal =>
        \A k \in 1 .. Len(rows) :
            (~ YearRaises(rows[k]) /\ ~ SignalsRaise(rows[k])) => Persisted(k)

\* The rows of the first n students of the batch are in the two histories.
RowsKept(n) ==
    /\ Len(snapshots) >= n
    /\ Len(recs) >= n
    /\ \A k \in 1 .. n :
           /\ snapshots[k].student_id = rows[k].student_id
           /\ recs[k].student_id = rows[k].student_id

\* run_agent is at a call of upsert_student, add_risk_snapshot or
\* add_recommendation whose arguments were built.
AtStoreWrite ==
    \/ pc = "upsert" /\ ~ YearRaises(rows[idx])
    \/ pc = "score" /\ ~ SignalsRaise(rows[idx])
    \/ pc = "add_rec"

\* C19: a failed store write leaves run_agent as an exception: no
\* AgentRunResult, no output file, the tables as they were before the write
\* with the rows of the earlier students in them, and no step after it: no
\* later student is processed.
C19_StoreFailurePropagates ==
    [][/\ pc # "failed"
       /\ (AtStoreWrite /\ pc' = "failed") =>
              /\ run' = RunRaised("OperationalError")
              /\ out_file' = None
              /\ students' = students /\ snapshots' = snapshots /\ recs' = recs
              /\ all_out' = all_out
              /\ RowsKept(idx - 1)']_vars

\* add_recommendation failed for the second student: the first student's
\* rows and the second's snapshot are in the store.
C19_Witness ==
    /\ pc = "failed"
    /\ run = RunRaised("OperationalError")
    /\ idx = 2
    /\ Len(rows) = 2
    /\ Len(snapshots) = 2
    /\ Len(recs) = 1
    /\ out_file = None

\* C20: with use_db_signals and no signal rows run_agent raises ValueError
\* at once: the tables are untouched, the service is not called, no output
\* is written, and nothing follows.
C20_NoSignalsIsFatalBeforeProcessing ==
    [][(use_db /\ signals = <<>>) =>
          /\ pc = "start"
          /\ pc' = "failed"
          /\ run' = RunRaised("ValueError")
          /\ students' = students /\ snapshots' = <<>> /\ recs' = <<>>
          /\ all_out' = <<>> /\ out_file' = None
          /\ calls' = 0 /\ outcome' = NoOutcome]_vars

\* The run raised on an empty signals table while the store holds a student.
C20_Witness ==
    /\ use_db
    /\ signals = <<>>
    /\ pc = "failed"
    /\ run = RunRaised("ValueError")
    /\ students = {StudentWithoutSignals}
    /\ out_file = None

\* The latest recommend call returned what the advisory service sent, after
\* validation.
ServicePath ==
    /\ is_configured(api_key)
    /\ generate_json(api_key, svc, candidate).kind = "returned"
    /\ _validate(candidate).kind = "returned"

\* The last row of recommendations is the row of the latest recommend call.
LastRowIsOfLatestCall ==
    /\ recs # <<>>
    /\ pc # "add_rec"
    /\ outcome.kind = "returned"

\* C21: the model_used of a recommendation row names the model when the
\* recommendation is the validated output of the advisory service, and is
\* None when it came from the fallback.
C21_ModelUsedNamesThePath ==
    LastRowIsOfLatestCall =>
        recs[Len(recs)].model_used = IF ServicePath THEN Some(GeminiModel) ELSE None

\* The signals of an output element, as run_agent takes them from the row.
SignalsOf(row) ==
    LET i == RiskInputOf(row, as_of)
    IN  [current_gpa |-> i.current_gpa,
         previous_gpa |-> i.previous_gpa,
         attendance_pct |-> i.attendance_pct,
         lms_last_active_days |-> i.lms_last_active_days,
         failed_modules_count |-> i.failed_modules_count,
         missed_assessments_count |-> i.missed_assessments_count,
         course_load_credits |-> i.course_load_credits]

\* C25: a run that completes has written one element per row of the batch,
\* in the order of the rows, each with the run's as_of, the student, the
\* signals, the risk result and the recommendation returned (and stored) for
\* the row; processed is the number of rows.
C25_OutputHasOneElementPerRecord ==
    pc = "done" =>
        /\ run = RunReturned(Len(rows))
        /\ out_file # None
        /\ Len(Val(out_file)) = Len(rows)
        /\ \A k \in 1 .. Len(rows) :
               LET el   == Val(out_file)[k]
                   risk == calculate_risk(RiskInputOf(rows[k], as_of))
               IN  /\ el.as_of = isoformat(as_of)
                   /\ el.student.student_id = rows[k].student_id
                   /\ el.student.full_name = PyStr(rows[k].full_name)
                   /\ el.student.major = PyStr(rows[k].major)
                   /\ el.student.year_level = YearOrNone(rows[k])
                   /\ el.signals = SignalsOf(rows[k])
                   /\ el.risk = [score |-> risk.score, level |-> risk.level,
                                 reasons |-> risk.reasons]
                   /\ el.recommendation.priority = recs[k].priority
                   /\ el.recommendation.recommended_actions = recs[k].recommended_actions
                   /\ el.recommendation.explanation = recs[k].explanation

\* A run over two different students completed, the first of them HIGH.
C25_Witness ==
    /\ pc = "done"
    /\ rows = <<GoodRowHigh, GoodRowMedium>>
    /\ Len(Val(out_file)) = 2
    /\ Val(out_file)[1].risk.score = 100
    /\ Val(out_file)[2].risk.level = "MEDIUM"
    /\ run.processed = 2

\* C27: the steps of a student go upsert, snapshot, recommend, append: a
\* snapshot's student has a profile, the k-th recommendation has the k-th
\* snapshot with the same student_id, as_of, score and level, the
\* recommendation is requested with the snapshot appended, the file is
\* written by a completed run only, and a completed run has one snapshot and
\* one recommendation per row, all with the run's as_of.
C27_StepsInOrder ==
    /\ Len(recs) <= Len(snapshots)
    /\ Len(snapshots) <= Len(recs) + 1
    /\ \A k \in 1 .. Len(snapshots) : HasProfile(students, snapshots[k].student_id)
    /\ \A k \in 1 .. Len(recs) :
           /\ recs[k].student_id = snapshots[k].student_id
           /\ recs[k].as_of = snapshots[k].as_of
           /\ recs[k].risk_score = snapshots[k].score
           /\ recs[k].risk_level = snapshots[k].level
    /\ pc = "add_rec" => Len(snapshots) = Len(recs) + 1 /\ Len(snapshots) = idx
    /\ outcome.kind # "none" => Len(snapshots) >= 1
    /\ out_file # None => pc = "done"
    /\ pc = "done" =>
           /\ Len(snapshots) = Len(rows)
           /\ Len(recs) = Len(rows)
           /\ \A k \in 1 .. Len(rows) :
                  /\ snapshots[k].student_id = rows[k].student_id
                  /\ snapshots[k].as_of = _iso(as_of)
                  /\ recs[k].as_of = _iso(as_of)

\* A run over two students completed with the recommendation of the service
\* stored for the second.
C27_Witness ==
    /\ pc = "done"
    /\ Len(rows) = 2
    /\ Len(snapshots) = 2
    /\ Len(recs) = 2
    /\ recs[2].explanation = JStr(<<"x">>)
    /\ recs[1].risk_score = snapshots[1].score

(***************************************************************************)
(* Claims about the MemoryStore (checked under SpecStore)                  *)
(***************************************************************************)
\* Every row of the history old is in new, at its place and unchanged.
KeptIn(old, new) ==
    /\ Len(new) >= Len(old)
    /\ \A k \in 1 .. Len(old) : new[k] = old[k]

\* C22: no step of a MemoryStore call or of run_agent modifies or removes a
\* row of the risk snapshots, the recommendations or the interventions, and
\* no history gets shorter.
C22_HistoriesAreAppendOnly ==
    [][/\ KeptIn(snapshots, snapshots')
       /\ KeptIn(recs, recs')
       /\ KeptIn(interventions, interventions')]_vars

\* run_agent completed on a store that already held a snapshot of a direct
\* call.
C22_Witness ==
    /\ pc = "done"
    /\ Len(snapshots) = 2
    /\ Len(recs) = 1
    /\ snapshots[1].as_of = AsOfAll[1]
    /\ snapshots[2].student_id = snapshots[1].student_id

\* C24: list_latest_risks returns one row per student who has a snapshot,
\* and that row is the student's latest snapshot by as_of: the last entry of
\* the risks of get_student_timeline, which are in non-decreasing as_of order.
C24_LatestIsLastOfTimeline ==
    ret.op = "list_latest_risks" =>
        LET latest == ret.value
        IN  /\ \A sid \in StoreIds :
                   Cardinality({n \in 1 .. Len(latest) : latest[n].student_id = sid})
                       = IF IdsOf(snapshots, sid) # {} THEN 1 ELSE 0
            /\ \A n \in 1 .. Len(latest) :
                 \A risks \in TimelineOf(snapshots, latest[n].student_id) :
                   LET last == risks[Len(risks)].row
                   IN  /\ \A k \in 1 .. Len(risks) - 1 :
                              Rank(risks[k].row.as_of) <= Rank(risks[k + 1].row.as_of)
                       /\ latest[n].as_of = last.as_of
                       /\ latest[n].score = last.score
                       /\ latest[n].level = last.level

\* C28: add_student_signals for a student of the store returns, the table
\* then ends with the row of the ten values passed, and that row is what
\* get_latest_student_signals returns and is among the rows of
\* list_latest_signals.
C28_SignalsRoundTrip ==
    ret.op = "add_student_signals" =>
        /\ ret.kind = "returned"
        /\ Len(signals) >= 1
        /\ signals[Len(signals)] = ret.args
        /\ get_latest_student_signals(signals, ret.args.student_id)
               = Some([id |-> Len(signals), row |-> ret.args])
        /\ \A listed \in list_latest_signals(signals, students) :
               \E n \in 1 .. Len(listed) : listed[n].row = ret.args

(***************************************************************************)
(* Claims about upsert_student (checked under SpecProfiles)                *)
(***************************************************************************)
OneRowPerStudent(tbl) ==
    \A r1, r2 \in tbl : r1.student_id = r2.student_id => r1 = r2

\* The value a field has after a call: the one passed, or without one the
\* one the student's row had, None if there was no row.
Merged(passed, old, field) ==
    IF passed # None THEN passed
    ELSE IF old = {} THEN None
    ELSE (CHOOSE r \in old : TRUE)[field]

\* C23: the table has one row per student_id; a call of upsert_student
\* leaves the student with one row, each field holding the value passed or,
\* for None, the value it had, and the other students' rows as they were;
\* a call repeating the arguments of the call before it changes nothing.
C23_UpsertIsIdempotentMerge ==
    /\ [] OneRowPerStudent(students)
    /\ [][ret'.op = "upsert_student" =>
            LET a   == ret'.args
                old == {r \in students : r.student_id = a.student_id}
                new == {r \in students' : r.student_id = a.student_id}
            IN  /\ Cardinality(new) = 1
                /\ \A r \in new :
                       /\ r.full_name = Merged(a.full_name, old, "full_name")
                       /\ r.major = Merged(a.major, old, "major")
                       /\ r.year_level = Merged(a.year_level, old, "year_level")
                /\ students' \ new = students \ old
                /\ (ret.op = "upsert_student" /\ ret.args = a) =>
                       students' = students]_vars

\* A call passed a new major and no name or year for a student who had all
\* three: name and year were kept, the major replaced; both students have a
\* row.
C23_Witness ==
    /\ ret.op = "upsert_student"
    /\ ret.args = [student_id |-> "S1", full_name |-> None, major |-> Some("EE"),
                   year_level |-> None]
    /\ [student_id |-> "S1", full_name |-> Some("Ann"), major |-> Some("EE"),
        year_level |-> Some(2)] \in students
    /\ Cardinality(students) = 2

====
